---- MODULE Spec2Model ----
(***************************************************************************)
(* The note board of jgtea/note-manager: the Board component (layout,     *)
(* filters, drag-release) on top of the useNotes hook (local list, remote *)
(* store, update requests in flight).                                     *)
(***************************************************************************)
EXTENDS Integers, Sequences, FiniteSets, TLC

VARIABLES
    notes,              \* useNotes: the local list (React state), a sequence of rows
    loading,            \* useNotes: loading flag
    store,              \* the remote notes table: id -> row
    requests,           \* update requests in flight
    innerWidth,         \* window.innerWidth
    statusFilter, letterFilter, companyFilter, dateFilter,   \* Board filter state
    prevFiltersRef,     \* Board: prevFiltersRef.current
    initialArrangeRef,  \* Board: initialArrangeRef.current
    opseq,              \* number of layout operations (arrange passes, drag-releases) so far
    log,                \* the layout operations so far, each as its handler computed it
    budget,             \* user events still to come (bounds the exploration)
    viewingUserId,      \* Board: the user whose notes are viewed (null: no restriction)
    creates,            \* handleCreateNote calls under way (insert in flight, timer pending)
    deletes,            \* deleteNote calls under way
    calc,               \* the date calculations: the inputs drawn and the results computed
    selectedNote        \* Board: the note of the detail modal (null: the modal is closed)

vars == <<notes, loading, store, requests, innerWidth, statusFilter, letterFilter,
          companyFilter, dateFilter, prevFiltersRef, initialArrangeRef, opseq, log, budget,
          viewingUserId, creates, deletes, calc, selectedNote>>

\* the state outside the layout machinery of the board, without and with the detail modal
aside == <<viewingUserId, creates, deletes, calc>>
rest == <<aside, selectedNote>>

----------------------------------------------------------------------------
(* Bounds of the exploration *)

\* user events (clicks, drags, resizes) explored after construction
MaxOps == 1

\* size of the crowded board of the drag-release specification
CrowdSize == 52

\* longest note list of the arrange specification
MaxList == 7

----------------------------------------------------------------------------
(* Program constants *)

NOTE_WIDTH == 380
NOTE_HEIGHT == 280
GRID_GAP == 15
maxAttempts == 50

GRID_SIZE_X == NOTE_WIDTH + GRID_GAP
GRID_SIZE_Y == NOTE_HEIGHT + GRID_GAP

\* createNote's stacking placement
HEADER_HEIGHT == 100
CREATE_NOTE_WIDTH == 440
NOTES_PER_COLUMN == 6

\* an optional value (null | v) is the empty sequence or the one-element sequence of v
Null == <<>>
Some(v) == <<v>>

Abs(n) == IF n < 0 THEN -n ELSE n
Max(a, b) == IF a >= b THEN a ELSE b

\* Math.round(n / d) for integers n and d > 0: the nearest integer, halves towards +infinity
MathRound(n, d) == (2 * n + d) \div (2 * d)

\* Math.floor(n / d) for d > 0
MathFloor(n, d) == n \div d

----------------------------------------------------------------------------
(* Strings: a customer name is the sequence of its character codes (ASCII letters) *)

IsLower(c) == c >= 97 /\ c <= 122
IsUpper(c) == c >= 65 /\ c <= 90
toUpperCase(s) == [i \in 1..Len(s) |-> IF IsLower(s[i]) THEN s[i] - 32 ELSE s[i]]
toLowerCase(s) == [i \in 1..Len(s) |-> IF IsUpper(s[i]) THEN s[i] + 32 ELSE s[i]]

startsWith(s, p) == Len(p) <= Len(s) /\ SubSeq(s, 1, Len(p)) = p

includes(s, p) == \E k \in 0..(Len(s) - Len(p)) : SubSeq(s, k + 1, k + Len(p)) = p

\* lexicographic comparison of two sequences of numbers: -1, 0 or 1
RECURSIVE LexCompare(_, _)
LexCompare(a, b) ==
    IF a = <<>> /\ b = <<>> THEN 0
    ELSE IF a = <<>> THEN -1
    ELSE IF b = <<>> THEN 1
    ELSE IF Head(a) < Head(b) THEN -1
    ELSE IF Head(a) > Head(b) THEN 1
    ELSE LexCompare(Tail(a), Tail(b))

\* tertiary weight of a letter: lower case sorts before upper case
CaseWeight(s) == [i \in 1..Len(s) |-> IF IsUpper(s[i]) THEN 1 ELSE 0]

\* a.localeCompare(b, 'nl') on letter strings: the letters decide first, whatever their
\* case; strings equal up to case are ordered lower case first
localeCompare(a, b) ==
    LET primary == LexCompare(toLowerCase(a), toLowerCase(b))
    IN IF primary # 0 THEN primary ELSE LexCompare(CaseWeight(a), CaseWeight(b))

\* Array.prototype.sort with the customer_name comparator (a stable sort): the element
\* at index i moves behind the elements that compare lower and the equal ones before it
SortByName(ns) ==
    LET before(j, i) ==
            LET c == localeCompare(ns[j].customer_name, ns[i].customer_name)
            IN c < 0 \/ (c = 0 /\ j < i)
        rank == <<>> \o [i \in 1..Len(ns) |-> Cardinality({j \in 1..Len(ns) : before(j, i)})]
    IN [k \in 1..Len(ns) |-> ns[CHOOSE i \in 1..Len(ns) : rank[i] = k - 1]]

----------------------------------------------------------------------------
(* Board: the filtered, sorted list that is rendered and arranged *)

\* deadline.split('T')[0]: the date part of the stored (UTC) instant
DatePart(deadline) == deadline.utcDate

\* the string 'all' of the letter filter
ALL == <<97, 108, 108>>

filteredNotes(ns, sf, lf, cf, df) ==
    LET byStatus(n) == sf = "all" \/ n.status = sf
        byName(n) ==
            IF cf # Null
            THEN includes(toLowerCase(n.customer_name), toLowerCase(cf[1]))
            ELSE IF lf = ALL THEN TRUE
            ELSE startsWith(toUpperCase(n.customer_name), lf)
        byDate(n) ==
            IF df = Null THEN TRUE
            ELSE n.deadline # Null /\ DatePart(n.deadline[1]) = df[1]
    IN SortByName(SelectSeq(SelectSeq(SelectSeq(ns, byStatus), byName), byDate))

\* lettersWithNotes: the upper-cased first letters of the loaded notes
lettersWithNotes(ns) ==
    {toUpperCase(SubSeq(ns[i].customer_name, 1, 1)) : i \in 1..Len(ns)}

----------------------------------------------------------------------------
(* Board.handleOverview: the grid arrangement *)

notesPerRow(w) == Max(1, MathFloor(w - 40, NOTE_WIDTH + GRID_GAP))

\* a column pitch that leaves out the gap
ArrangeX_NoGap(index, w) == (index % notesPerRow(w)) * NOTE_WIDTH + 20

\* a row pitch that leaves out the gap
ArrangeY_NoGap(index, w) == MathFloor(index, notesPerRow(w)) * NOTE_HEIGHT + 20

\* the position handleOverview computes for the note at (0-based) index
ArrangeX(index, w) == (index % notesPerRow(w)) * (NOTE_WIDTH + GRID_GAP) + 20
ArrangeY(index, w) == MathFloor(index, notesPerRow(w)) * (NOTE_HEIGHT + GRID_GAP) + 20

\* useNotes.updatePosition: the update request it sends
updatePosition(id, x, y, seq) ==
    [op |-> seq, id |-> id, upd |-> [position_x |-> x, position_y |-> y],
     phase |-> "sent", data |-> Null]

\* useNotes.updateNote: the update request it sends
updateNote(id, updates, seq) ==
    [op |-> seq, id |-> id, upd |-> updates, phase |-> "sent", data |-> Null]

\* a pass that leaves out the last note of the list
handleOverview_SkipLast(notesToArrange, w, seq) ==
    {updatePosition(notesToArrange[i].id, ArrangeX(i - 1, w), ArrangeY(i - 1, w), seq) :
        i \in 1..(Len(notesToArrange) - 1)}

\* the update requests one handleOverview pass issues for the list it arranges
handleOverview(notesToArrange, w, seq) ==
    IF Len(notesToArrange) = 0 THEN {}
    ELSE {updatePosition(notesToArrange[i].id, ArrangeX(i - 1, w), ArrangeY(i - 1, w), seq) :
            i \in 1..Len(notesToArrange)}

----------------------------------------------------------------------------
(* Board.handleDragEnd: snap to the grid and probe for a free cell *)

\* a snap that does not clamp at the board origin
SnapX_NoClamp(rawX) == MathRound(rawX, GRID_SIZE_X) * GRID_SIZE_X + 20

SnapX(rawX) == Max(0, MathRound(rawX, GRID_SIZE_X) * GRID_SIZE_X + 20)
SnapY(rawY) == Max(0, MathRound(rawY, GRID_SIZE_Y) * GRID_SIZE_Y + 20)

\* the occupancy set of a drag-release of note id
otherNotes(ns, id) == SelectSeq(ns, LAMBDA n : n.id # id)

\* a probe that only sees a note lying exactly on the candidate
Occupied_SameCellOnly(others, x, y) ==
    \E i \in 1..Len(others) : others[i].position_x = x /\ others[i].position_y = y

\* otherNotes.some(...): the candidate is too close to another note
Occupied(others, x, y) ==
    \E i \in 1..Len(others) :
        /\ Abs(others[i].position_x - x) < GRID_SIZE_X - 10
        /\ Abs(others[i].position_y - y) < GRID_SIZE_Y - 10

\* an advance that wraps only once the cell starts beyond the board width
Advance_WrapAtBoardWidth(c, w) ==
    IF c.x + GRID_SIZE_X > w - 40
    THEN [x |-> 20, y |-> c.y + GRID_SIZE_Y]
    ELSE [x |-> c.x + GRID_SIZE_X, y |-> c.y]

\* the candidate after a colliding one: the next cell to the right, then the next row
Advance(c, w) ==
    LET newX == c.x + GRID_SIZE_X
        boardWidth == w - 40
    IN IF newX > boardWidth - NOTE_WIDTH
       THEN [x |-> 20, y |-> c.y + GRID_SIZE_Y]
       ELSE [x |-> newX, y |-> c.y]

\* a loop that gives up one probe early
RECURSIVE ProbeLoop_OneProbeShort(_, _, _, _, _)
ProbeLoop_OneProbeShort(others, w, trail, positionOccupied, attempts) ==
    IF ~(positionOccupied /\ attempts < maxAttempts - 1)
    THEN [trail |-> trail, attempts |-> attempts, positionOccupied |-> positionOccupied]
    ELSE LET c == trail[Len(trail)]
             occ == Occupied(others, c.x, c.y)
         IN ProbeLoop_OneProbeShort(others, w, IF occ THEN Append(trail, Advance(c, w)) ELSE trail,
                                    occ, attempts + 1)

\* the while loop: trail holds the candidates so far (the last one is current), probes
\* the number of loop iterations run
RECURSIVE ProbeLoop(_, _, _, _, _)
ProbeLoop(others, w, trail, positionOccupied, attempts) ==
    IF ~(positionOccupied /\ attempts < maxAttempts)
    THEN [trail |-> trail, attempts |-> attempts, positionOccupied |-> positionOccupied]
    ELSE LET c == trail[Len(trail)]
             occ == Occupied(others, c.x, c.y)
         IN ProbeLoop(others, w, IF occ THEN Append(trail, Advance(c, w)) ELSE trail,
                      occ, attempts + 1)

\* a resolution that snaps and never probes
ResolveDrag_NoProbe(ns, note, delta, w) ==
    [trail |-> <<[x |-> SnapX(note.position_x + delta[1]), y |-> SnapY(note.position_y + delta[2])]>>,
     attempts |-> 1, positionOccupied |-> FALSE]

\* the resolution of a drag-release of note by delta on the list ns
ResolveDrag(ns, note, delta, w) ==
    LET rawX == note.position_x + delta[1]
        rawY == note.position_y + delta[2]
        first == [x |-> SnapX(rawX), y |-> SnapY(rawY)]
    IN ProbeLoop(otherNotes(ns, note.id), w, <<first>>, TRUE, 0)

----------------------------------------------------------------------------
(* The rows of the example boards *)

Statuses == {"nieuw", "in_behandeling", "afgerond", "archief"}

\* "ab", "Ab", "PPG"
ExampleNames == << <<97, 98>>, <<65, 98>>, <<80, 80, 71>> >>
ExampleStatuses == <<"nieuw", "afgerond", "nieuw">>
ExampleDeadlines ==
    <<Some([utcDate |-> 1, utcMinute |-> 0]), Null, Some([utcDate |-> 2, utcMinute |-> 0])>>

\* the buttons the model clicks: status buttons (one that hides a note, one that hides
\* all), letter buttons ("A", "P"), a company button ("PPG") and a calendar day
StatusButtons == {"all", "nieuw", "archief"}
LetterButtons == {<<65>>, <<80>>}
SPECIAL_BUTTONS == {<<80, 80, 71>>}
CalendarDays == {1}

\* window widths: a phone (one column), two columns
Widths == {400, 830}

\* pointer deltas of a drag: one cell to the right, up and left beyond the origin
Deltas == {<<395, 0>>, <<-600, -700>>}

\* createNote's placement of a note created when n notes are loaded
CreateX(n) == 20 + MathFloor(n, NOTES_PER_COLUMN) * (CREATE_NOTE_WIDTH + 20)
CreateY(n) == 20 + (n % NOTES_PER_COLUMN) * HEADER_HEIGHT

\* the users that own notes
Users == {1, 2}

ExampleRow(id, x, y) ==
    [id |-> id,
     user_id |-> (id % 2) + 1,
     customer_name |-> ExampleNames[(id % 3) + 1],
     status |-> ExampleStatuses[(id % 3) + 1],
     note_type |-> "offerte",
     replied |-> FALSE,
     compleet |-> FALSE,
     remarks |-> Null,
     deadline |-> ExampleDeadlines[(id % 3) + 1],
     deadline_type |-> Null,
     position_x |-> x, position_y |-> y, z_index |-> id - 1]

\* a store of n notes, each still where createNote put it
CreatedStore(n) == [id \in 1..n |-> ExampleRow(id, CreateX(id - 1), CreateY(id - 1))]

\* select('*').order('z_index', descending) over the rows of the store (rows of equal
\* z_index in the order of their ids)
OrderByZDesc(rows) ==
    LET before(q, r) == q.z_index > r.z_index \/ (q.z_index = r.z_index /\ q.id < r.id)
    IN [k \in 1..Cardinality(rows) |->
          CHOOSE r \in rows : Cardinality({q \in rows : before(q, r)}) = k - 1]

StoreRows(st) == {st[id] : id \in DOMAIN st}

\* the rows fetchNotes asks for: all of them, or those of the viewed user
QueryRows(st, viewUserId) ==
    IF viewUserId = Null THEN StoreRows(st)
    ELSE {r \in StoreRows(st) : r.user_id = viewUserId[1]}

----------------------------------------------------------------------------
(* Rendering: the two auto-arrange effects of Board run after every render *)

Filters(sf, lf, cf, df) ==
    [statusFilter |-> sf, letterFilter |-> lf, companyFilter |-> cf, dateFilter |-> df]

\* the layout operations that have writes not yet answered
Pending == {r.op : r \in {q \in requests : q.phase \in {"sent", "applied"}}}

\* a pass as the log keeps it: what started it, the width it read, the list it arranged,
\* and the operations whose writes were still unanswered when it started
ArrangeRecord(list, w, seq, trigger) ==
    [op |-> "arrange", seq |-> seq, trigger |-> trigger, width |-> w,
     ids |-> [i \in 1..Len(list) |-> list[i].id], pending |-> Pending]

\* a filter-change effect that arranges the list of the filters before the change
Render_PreviousFilter(ns, ld, sf, lf, cf, df, reqs) ==
    LET list == filteredNotes(ns, prevFiltersRef.statusFilter, prevFiltersRef.letterFilter,
                              prevFiltersRef.companyFilter, prevFiltersRef.dateFilter)
        filterChanged == prevFiltersRef # Filters(sf, lf, cf, df)
        byFilter == filterChanged /\ Len(list) > 0
        byLoad == ~initialArrangeRef /\ ~ld /\ Len(ns) > 0
        seq1 == IF byFilter THEN opseq + 1 ELSE opseq
        seq2 == IF byLoad THEN seq1 + 1 ELSE seq1
    IN /\ requests' = reqs
                        \cup (IF byFilter THEN handleOverview(list, innerWidth, seq1) ELSE {})
                        \cup (IF byLoad THEN handleOverview(list, innerWidth, seq2) ELSE {})
       /\ opseq' = seq2
       /\ log' = log \o (IF byFilter THEN <<ArrangeRecord(list, innerWidth, seq1, "filter")>> ELSE <<>>)
                      \o (IF byLoad THEN <<ArrangeRecord(list, innerWidth, seq2, "load")>> ELSE <<>>)
       /\ prevFiltersRef' = Filters(sf, lf, cf, df)
       /\ initialArrangeRef' = (initialArrangeRef \/ byLoad)

\* an initial-arrange effect that does not consult initialArrangeRef
Render_NoInitialRef(ns, ld, sf, lf, cf, df, reqs) ==
    LET list == filteredNotes(ns, sf, lf, cf, df)
        filterChanged == prevFiltersRef # Filters(sf, lf, cf, df)
        byFilter == filterChanged /\ Len(list) > 0
        byLoad == ~ld /\ Len(ns) > 0
        seq1 == IF byFilter THEN opseq + 1 ELSE opseq
        seq2 == IF byLoad THEN seq1 + 1 ELSE seq1
    IN /\ requests' = reqs
                        \cup (IF byFilter THEN handleOverview(list, innerWidth, seq1) ELSE {})
                        \cup (IF byLoad THEN handleOverview(list, innerWidth, seq2) ELSE {})
       /\ opseq' = seq2
       /\ log' = log \o (IF byFilter THEN <<ArrangeRecord(list, innerWidth, seq1, "filter")>> ELSE <<>>)
                      \o (IF byLoad THEN <<ArrangeRecord(list, innerWidth, seq2, "load")>> ELSE <<>>)
       /\ prevFiltersRef' = Filters(sf, lf, cf, df)
       /\ initialArrangeRef' = (initialArrangeRef \/ byLoad)

\* the render with local list ns, loading flag ld and the given filters, starting from
\* the requests reqs
Render(ns, ld, sf, lf, cf, df, reqs) ==
    LET list == filteredNotes(ns, sf, lf, cf, df)
        filterChanged == prevFiltersRef # Filters(sf, lf, cf, df)
        byFilter == filterChanged /\ Len(list) > 0
        byLoad == ~initialArrangeRef /\ ~ld /\ Len(ns) > 0
        seq1 == IF byFilter THEN opseq + 1 ELSE opseq
        seq2 == IF byLoad THEN seq1 + 1 ELSE seq1
    IN /\ requests' = reqs
                        \cup (IF byFilter THEN handleOverview(list, innerWidth, seq1) ELSE {})
                        \cup (IF byLoad THEN handleOverview(list, innerWidth, seq2) ELSE {})
       /\ opseq' = seq2
       /\ log' = log \o (IF byFilter THEN <<ArrangeRecord(list, innerWidth, seq1, "filter")>> ELSE <<>>)
                      \o (IF byLoad THEN <<ArrangeRecord(list, innerWidth, seq2, "load")>> ELSE <<>>)
       /\ prevFiltersRef' = Filters(sf, lf, cf, df)
       /\ initialArrangeRef' = (initialArrangeRef \/ byLoad)

----------------------------------------------------------------------------
(* Construction and load *)

Init ==
    /\ notes = <<>>
    /\ loading = TRUE
    /\ store = CreatedStore(2)
    /\ requests = {}
    /\ innerWidth \in Widths
    /\ statusFilter = "all"
    /\ letterFilter = ALL
    /\ companyFilter = Null
    /\ dateFilter = Null
    /\ prevFiltersRef = Filters("all", ALL, Null, Null)
    /\ initialArrangeRef = FALSE
    /\ opseq = 0
    /\ log = <<>>
    /\ budget = MaxOps
    /\ viewingUserId = Null
    /\ creates = {}
    /\ deletes = {}
    /\ calc = Null
    /\ selectedNote = Null

\* useNotes.fetchNotes: the query answers with the rows of the store
FetchResponse ==
    /\ loading
    /\ notes' = OrderByZDesc(QueryRows(store, viewingUserId))
    /\ loading' = FALSE
    /\ Render(notes', FALSE, statusFilter, letterFilter, companyFilter, dateFilter, requests)
    /\ UNCHANGED <<store, innerWidth, statusFilter, letterFilter, companyFilter, dateFilter, budget>>
    /\ UNCHANGED rest

\* useNotes.fetchNotes: the query fails
FetchError ==
    /\ loading
    /\ loading' = FALSE
    /\ Render(notes, FALSE, statusFilter, letterFilter, companyFilter, dateFilter, requests)
    /\ UNCHANGED <<notes, store, innerWidth, statusFilter, letterFilter, companyFilter, dateFilter, budget>>
    /\ UNCHANGED rest

----------------------------------------------------------------------------
(* The filter buttons *)

\* (while loading, Board renders the loading screen only: no button, no note)
SetFilters(sf, lf, cf, df) ==
    /\ ~loading
    /\ budget > 0
    /\ budget' = budget - 1
    /\ statusFilter' = sf
    /\ letterFilter' = lf
    /\ companyFilter' = cf
    /\ dateFilter' = df
    /\ Render(notes, loading, sf, lf, cf, df, requests)
    /\ UNCHANGED <<notes, loading, store, innerWidth>>
    /\ UNCHANGED rest

StatusButton(s) == SetFilters(s, ALL, Null, dateFilter)

LetterAllButton == SetFilters(statusFilter, ALL, Null, dateFilter)

LetterButton(letter) ==
    /\ letter \in lettersWithNotes(notes)
    /\ SetFilters(statusFilter, letter, Null, dateFilter)

CompanyButton(company) == SetFilters(statusFilter, ALL, Some(company), dateFilter)

DateSelect(date) ==
    SetFilters(statusFilter, letterFilter, companyFilter, IF Some(date) = dateFilter THEN Null ELSE Some(date))

\* closing the calendar (or the x of the date badge)
DateClear == SetFilters(statusFilter, letterFilter, companyFilter, Null)

\* the browser window is resized (Board registers no listener for it, so that no render
\* and no effect follows); the log notes the event
Resize(w) ==
    /\ budget > 0
    /\ budget' = budget - 1
    /\ w # innerWidth
    /\ innerWidth' = w
    /\ log' = Append(log, [op |-> "resize", width |-> w])
    /\ UNCHANGED <<notes, loading, store, requests, statusFilter, letterFilter, companyFilter,
                   dateFilter, prevFiltersRef, initialArrangeRef, opseq>>
    /\ UNCHANGED rest

----------------------------------------------------------------------------
(* Board.handleDragEnd *)

\* notes.find(n => n.id === active.id): the rows of ns with that id, in order
FindNote(ns, id) == SelectSeq(ns, LAMBDA n : n.id = id)

\* the ids of the sticky notes that are rendered, and so can be dragged
RenderedIds ==
    LET list == filteredNotes(notes, statusFilter, letterFilter, companyFilter, dateFilter)
    IN {list[i].id : i \in 1..Len(list)}

\* an id no row carries (a drag event for a note that is gone)
GhostId == 0

DragRecord(id, delta, w, seq, res) ==
    [op |-> "drag", seq |-> seq, id |-> id, found |-> TRUE, delta |-> delta, width |-> w,
     pending |-> Pending,
     trail |-> res.trail, attempts |-> res.attempts, positionOccupied |-> res.positionOccupied,
     x |-> res.trail[Len(res.trail)].x, y |-> res.trail[Len(res.trail)].y]

handleDragEnd(id, delta) ==
    /\ ~loading
    /\ selectedNote = Null
    /\ budget > 0
    /\ budget' = budget - 1
    /\ LET found == FindNote(notes, id)
       IN IF found # <<>>
          THEN LET note == found[1]
                   res == ResolveDrag(notes, note, delta, innerWidth)
                   rec == DragRecord(id, delta, innerWidth, opseq + 1, res)
               IN /\ requests' = requests \cup {updatePosition(note.id, rec.x, rec.y, opseq + 1)}
                  /\ log' = Append(log, rec)
          ELSE /\ requests' = requests
               /\ log' = Append(log, [op |-> "drag", seq |-> opseq + 1, id |-> id, found |-> FALSE])
    /\ opseq' = opseq + 1
    /\ UNCHANGED <<notes, loading, store, innerWidth, statusFilter, letterFilter, companyFilter,
                   dateFilter, prevFiltersRef, initialArrangeRef>>
    /\ UNCHANGED rest

----------------------------------------------------------------------------
(* useNotes.updateNote: the request at the store, and its answer at the client *)

\* the row with the fields of upd overwritten
ApplyUpdate(row, upd) ==
    [f \in DOMAIN row |-> IF f \in DOMAIN upd THEN upd[f] ELSE row[f]]

\* the log record of the detail-modal handler that made call seq (none: another caller)
ModalRecord(seq) == SelectSeq(log, LAMBDA e : e.op = "detail" /\ e.seq = seq)

\* what a handler of the detail modal does to selectedNote once its await returns
\* (setSelectedNote(prev => ...), whatever the answer was)
AfterAwait(seq) ==
    LET rec == ModalRecord(seq)
    IN IF rec = <<>> THEN selectedNote
       ELSE IF rec[1].handler = "handleDelete" THEN Null
       ELSE IF selectedNote = Null THEN Null
       ELSE LET prev == selectedNote[1].note
                next == IF rec[1].handler = "handleToggleSelectedCompleet"
                        THEN [prev EXCEPT !.compleet = ~prev.compleet]
                        ELSE ApplyUpdate(prev, rec[1].upd)
            IN Some([selectedNote[1] EXCEPT !.note = next])

\* an update without its eq('id', id): every row takes the new fields
StoreApply_NoEq(r) ==
    /\ r.phase = "sent"
    /\ r.id \in DOMAIN store
    /\ store' = [id \in DOMAIN store |-> ApplyUpdate(store[id], r.upd)]
    /\ requests' = (requests \ {r})
                      \cup {[r EXCEPT !.phase = "applied", !.data = Some(store'[r.id])]}
    /\ UNCHANGED <<notes, loading, innerWidth, statusFilter, letterFilter, companyFilter,
                   dateFilter, prevFiltersRef, initialArrangeRef, opseq, log, budget>>
    /\ UNCHANGED rest

\* the store runs update(...).eq('id', id).select().single() and answers with the row
StoreApply(r) ==
    /\ r.phase = "sent"
    /\ r.id \in DOMAIN store
    /\ LET row == ApplyUpdate(store[r.id], r.upd)
       IN /\ store' = [store EXCEPT ![r.id] = row]
          /\ requests' = (requests \ {r}) \cup {[r EXCEPT !.phase = "applied", !.data = Some(row)]}
    /\ UNCHANGED <<notes, loading, innerWidth, statusFilter, letterFilter, companyFilter,
                   dateFilter, prevFiltersRef, initialArrangeRef, opseq, log, budget>>
    /\ UNCHANGED rest

\* the request fails (the store rejects it, or finds no row): the answer is an error,
\* which updateNote drops
StoreReject(r) ==
    /\ r.phase = "sent"
    /\ requests' = (requests \ {r}) \cup {[r EXCEPT !.phase = "failed"]}
    /\ selectedNote' = AfterAwait(r.op)
    /\ UNCHANGED <<notes, loading, store, innerWidth, statusFilter, letterFilter, companyFilter,
                   dateFilter, prevFiltersRef, initialArrangeRef, opseq, log, budget>>
    /\ UNCHANGED aside

\* a map that forgets the id test and replaces every row
ReplaceNote_EveryRow(ns, id, data) == [i \in 1..Len(ns) |-> data]

\* setNotes(prev => prev.map(n => n.id === id ? data : n))
ReplaceNote(ns, id, data) == [i \in 1..Len(ns) |-> IF ns[i].id = id THEN data ELSE ns[i]]

\* the answer of an applied update arrives: the local row is replaced by the returned one
Response(r) ==
    /\ r.phase = "applied"
    /\ notes' = ReplaceNote(notes, r.id, r.data[1])
    /\ Render(notes', loading, statusFilter, letterFilter, companyFilter, dateFilter,
              (requests \ {r}) \cup {[r EXCEPT !.phase = "done"]})
    /\ selectedNote' = AfterAwait(r.op)
    /\ UNCHANGED <<loading, store, innerWidth, statusFilter, letterFilter, companyFilter,
                   dateFilter, budget>>
    /\ UNCHANGED aside

----------------------------------------------------------------------------
(* Switching the viewed user: useNotes fetches again *)

\* the select of the supervisor: setViewingUserId; fetchNotes is rebuilt for the new id and
\* its effect runs it, which sets loading; the list on screen stays until the answer
SwitchUser(v) ==
    /\ ~loading
    /\ budget > 0
    /\ budget' = budget - 1
    /\ v # viewingUserId
    /\ viewingUserId' = v
    /\ loading' = TRUE
    /\ Render(notes, FALSE, statusFilter, letterFilter, companyFilter, dateFilter, requests)
    /\ UNCHANGED <<notes, store, innerWidth, statusFilter, letterFilter, companyFilter,
                   dateFilter, creates, deletes, calc, selectedNote>>

----------------------------------------------------------------------------
(* Board.handleCreateNote and useNotes.createNote *)

\* the signed-in user
CurrentUser == 1

\* the customer names typed into the create form: "Aa", "Zz"
CreateNames == {<<65, 97>>, <<90, 122>>}

\* Math.max(...notes.map(n => n.z_index))
MaxZ(ns) == CHOOSE z \in {ns[i].z_index : i \in 1..Len(ns)} :
                \A i \in 1..Len(ns) : ns[i].z_index <= z

maxZIndex(ns) == IF Len(ns) > 0 THEN MaxZ(ns) + 1 ELSE 0

\* a placement that stacks by the z_index instead of the number of loaded notes
createNote_PlaceByZ(ns, name) ==
    [user_id |-> CurrentUser, customer_name |-> name, status |-> "nieuw",
     note_type |-> "offerte", replied |-> FALSE, compleet |-> FALSE, remarks |-> Null,
     deadline |-> Null, deadline_type |-> Null,
     position_x |-> CreateX(maxZIndex(ns)), position_y |-> CreateY(maxZIndex(ns)),
     z_index |-> maxZIndex(ns)]

\* the row createNote inserts when ns is the loaded list (the store adds the id)
createNote(ns, name) ==
    [user_id |-> CurrentUser, customer_name |-> name, status |-> "nieuw",
     note_type |-> "offerte", replied |-> FALSE, compleet |-> FALSE, remarks |-> Null,
     deadline |-> Null, deadline_type |-> Null,
     position_x |-> CreateX(Len(ns)), position_y |-> CreateY(Len(ns)),
     z_index |-> maxZIndex(ns)]

\* the create button is shown when the user views all notes or their own
CanCreate == viewingUserId = Null \/ viewingUserId = Some(CurrentUser)

\* the form is submitted: handleCreateNote of the current render runs createNote and
\* waits for the answer; closure is the filteredNotes its handleOverview will arrange
handleCreateNote(name) ==
    /\ ~loading
    /\ CanCreate
    /\ budget > 0
    /\ budget' = budget - 1
    /\ LET row == createNote(notes, name)
           list == filteredNotes(notes, statusFilter, letterFilter, companyFilter, dateFilter)
       IN /\ creates' = creates \cup {[seq |-> opseq + 1, row |-> row, closure |-> list,
                                        phase |-> "sent", data |-> Null]}
          /\ log' = Append(log, [op |-> "create", seq |-> opseq + 1, loaded |-> notes,
                                 row |-> row])
    /\ opseq' = opseq + 1
    /\ UNCHANGED <<notes, loading, store, requests, innerWidth, statusFilter, letterFilter,
                   companyFilter, dateFilter, prevFiltersRef, initialArrangeRef,
                   viewingUserId, deletes, calc, selectedNote>>

\* the id the store gives the row of create c (fresh: no row ever had it)
NewId(c) == 1000 + c.seq

\* insert(...).select().single(): the store adds the row and answers with it
StoreInsert(c) ==
    /\ c.phase = "sent"
    /\ LET id == NewId(c)
           row == [f \in DOMAIN c.row \cup {"id"} |-> IF f = "id" THEN id ELSE c.row[f]]
       IN /\ store' = [i \in DOMAIN store \cup {id} |-> IF i = id THEN row ELSE store[i]]
          /\ creates' = (creates \ {c}) \cup {[c EXCEPT !.phase = "stored", !.data = Some(row)]}
    /\ UNCHANGED <<notes, loading, requests, innerWidth, statusFilter, letterFilter,
                   companyFilter, dateFilter, prevFiltersRef, initialArrangeRef, opseq, log,
                   budget, viewingUserId, deletes, calc, selectedNote>>

\* the insert fails
StoreInsertReject(c) ==
    /\ c.phase = "sent"
    /\ creates' = (creates \ {c}) \cup {[c EXCEPT !.phase = "failed"]}
    /\ UNCHANGED <<notes, loading, store, requests, innerWidth, statusFilter, letterFilter,
                   companyFilter, dateFilter, prevFiltersRef, initialArrangeRef, opseq, log,
                   budget, viewingUserId, deletes, calc, selectedNote>>

\* the answer of the insert arrives: createNote appends the row to the list (when there
\* is one), and handleCreateNote goes on to close the form and set the 100 ms timer
CreateResponse(c) ==
    /\ c.phase \in {"stored", "failed"}
    /\ notes' = IF c.phase = "stored" THEN Append(notes, c.data[1]) ELSE notes
    /\ creates' = (creates \ {c}) \cup {[c EXCEPT !.phase = "timer"]}
    /\ Render(notes', loading, statusFilter, letterFilter, companyFilter, dateFilter, requests)
    /\ UNCHANGED <<loading, store, innerWidth, statusFilter, letterFilter, companyFilter,
                   dateFilter, budget, viewingUserId, deletes, calc, selectedNote>>

\* the pass of the timer of create c: the list it arranges, and the row that was created
TimerRecord(c, w, seq) ==
    [op |-> "arrange", seq |-> seq, trigger |-> "timer", width |-> w,
     ids |-> [i \in 1..Len(c.closure) |-> c.closure[i].id], pending |-> Pending,
     create |-> c.seq, created |-> c.data]

\* the timer fires: it calls the handleOverview that handleCreateNote closed over, the one
\* of the render in which the form was submitted
CreateTimer(c) ==
    /\ c.phase = "timer"
    /\ creates' = creates \ {c}
    /\ requests' = requests \cup handleOverview(c.closure, innerWidth, opseq + 1)
    /\ log' = Append(log, TimerRecord(c, innerWidth, opseq + 1))
    /\ opseq' = opseq + 1
    /\ UNCHANGED <<notes, loading, store, innerWidth, statusFilter, letterFilter,
                   companyFilter, dateFilter, prevFiltersRef, initialArrangeRef, budget,
                   viewingUserId, deletes, calc, selectedNote>>

----------------------------------------------------------------------------
(* useNotes.deleteNote *)

\* the delete of a rendered note is confirmed
deleteNote(id) ==
    /\ ~loading
    /\ selectedNote = Null
    /\ budget > 0
    /\ budget' = budget - 1
    /\ deletes' = deletes \cup {[seq |-> opseq + 1, id |-> id, phase |-> "sent"]}
    /\ log' = Append(log, [op |-> "delete", seq |-> opseq + 1, id |-> id])
    /\ opseq' = opseq + 1
    /\ UNCHANGED <<notes, loading, store, requests, innerWidth, statusFilter, letterFilter,
                   companyFilter, dateFilter, prevFiltersRef, initialArrangeRef,
                   viewingUserId, creates, calc, selectedNote>>

\* delete().eq('id', id) at the store (no error when no row matches)
StoreDelete(d) ==
    /\ d.phase = "sent"
    /\ store' = [i \in DOMAIN store \ {d.id} |-> store[i]]
    /\ deletes' = (deletes \ {d}) \cup {[d EXCEPT !.phase = "applied"]}
    /\ UNCHANGED <<notes, loading, requests, innerWidth, statusFilter, letterFilter,
                   companyFilter, dateFilter, prevFiltersRef, initialArrangeRef, opseq, log,
                   budget, viewingUserId, creates, calc, selectedNote>>

\* the delete fails
StoreDeleteReject(d) ==
    /\ d.phase = "sent"
    /\ deletes' = deletes \ {d}
    /\ selectedNote' = AfterAwait(d.seq)
    /\ UNCHANGED <<notes, loading, store, requests, innerWidth, statusFilter, letterFilter,
                   companyFilter, dateFilter, prevFiltersRef, initialArrangeRef, opseq, log,
                   budget, viewingUserId, creates, calc>>

\* the answer of the delete: setNotes(prev => prev.filter(n => n.id !== id))
DeleteResponse(d) ==
    /\ d.phase = "applied"
    /\ notes' = SelectSeq(notes, LAMBDA n : n.id # d.id)
    /\ deletes' = deletes \ {d}
    /\ Render(notes', loading, statusFilter, letterFilter, companyFilter, dateFilter, requests)
    /\ selectedNote' = AfterAwait(d.seq)
    /\ UNCHANGED <<loading, store, innerWidth, statusFilter, letterFilter, companyFilter,
                   dateFilter, budget, viewingUserId, creates, calc>>

----------------------------------------------------------------------------
(* The handlers of a sticky note: each sends one updateNote *)

\* the row of the local list a rendered sticky note shows
LocalNote(id) == FindNote(notes, id)[1]

\* a handler of the rendered note id calls updateNote(id, updates); the log keeps the call
CallUpdate(id, updates, kind, handler) ==
    /\ ~loading
    /\ selectedNote = Null
    /\ budget > 0
    /\ budget' = budget - 1
    /\ requests' = requests \cup {updateNote(id, updates, opseq + 1)}
    /\ log' = Append(log, [op |-> kind, seq |-> opseq + 1, id |-> id, handler |-> handler,
                           upd |-> updates, loaded |-> notes])
    /\ opseq' = opseq + 1
    /\ UNCHANGED <<notes, loading, store, innerWidth, statusFilter, letterFilter, companyFilter,
                   dateFilter, prevFiltersRef, initialArrangeRef>>
    /\ UNCHANGED rest

\* StickyNote.handleMouseDown: onBringToFront, that is useNotes.bringToFront
bringToFront(id) ==
    CallUpdate(id, [z_index |-> MaxZ(notes) + 1], "front", "bringToFront")

handleToggleReplied(id) ==
    CallUpdate(id, [replied |-> ~LocalNote(id).replied], "edit", "handleToggleReplied")

handleToggleCompleet(id) ==
    CallUpdate(id, [compleet |-> ~LocalNote(id).compleet], "edit", "handleToggleCompleet")

statusOrder == <<"nieuw", "in_behandeling", "afgerond", "archief">>

typeOrder == <<"offerte", "onderzoek", "overige">>

\* order[(order.indexOf(current) + 1) % order.length]  (indexOf gives -1 when absent)
CycleNext(order, current) ==
    LET at == {i \in 1..Len(order) : order[i] = current}
        currentIndex == IF at = {} THEN -1 ELSE (CHOOSE i \in at : TRUE) - 1
    IN order[((currentIndex + 1) % Len(order)) + 1]

handleCycleStatus(id) ==
    CallUpdate(id, [status |-> CycleNext(statusOrder, LocalNote(id).status)], "edit",
               "handleCycleStatus")

handleCycleType(id) ==
    CallUpdate(id, [note_type |-> CycleNext(typeOrder, LocalNote(id).note_type)], "edit",
               "handleCycleType")

\* the fields a sticky note edits in place, each with a value typed into it
\* (customer_name "Zz", deadline_type "must"; contact_person, subject, remarks and
\* deadline go the same way)
FieldEdits ==
    {[customer_name |-> <<90, 122>>],
     [deadline_type |-> Some("must")]}

\* a field edit that names position_x as its field
handleUpdateField_Position(id, edit) ==
    CallUpdate(id, [position_x |-> 20], "edit", "handleUpdateField")

\* updateNote(noteId, {[field]: value})
handleUpdateField(id, edit) == CallUpdate(id, edit, "edit", "handleUpdateField")

----------------------------------------------------------------------------
(* The detail modal: its handlers act on selectedNote *)

\* a double click on a rendered note: setSelectedNote(note); the modal covers the board
OpenDetail(id) ==
    /\ ~loading
    /\ selectedNote = Null
    /\ budget > 0
    /\ budget' = budget - 1
    /\ selectedNote' = Some([note |-> LocalNote(id), inst |-> opseq + 1])
    /\ opseq' = opseq + 1
    /\ log' = Append(log, [op |-> "open", seq |-> opseq + 1, id |-> id])
    /\ UNCHANGED <<notes, loading, store, requests, innerWidth, statusFilter, letterFilter,
                   companyFilter, dateFilter, prevFiltersRef, initialArrangeRef>>
    /\ UNCHANGED aside

\* onClose: setSelectedNote(null)
CloseDetail ==
    /\ selectedNote # Null
    /\ budget > 0
    /\ budget' = budget - 1
    /\ selectedNote' = Null
    /\ UNCHANGED <<notes, loading, store, requests, innerWidth, statusFilter, letterFilter,
                   companyFilter, dateFilter, prevFiltersRef, initialArrangeRef, opseq, log>>
    /\ UNCHANGED aside

\* the modal on screen waits for a call of its own (its controls are disabled meanwhile)
ModalBusy ==
    \E e \in {log[i] : i \in 1..Len(log)} :
        /\ e.op = "detail"
        /\ e.inst = selectedNote[1].inst
        /\ \/ \E r \in requests : r.op = e.seq /\ r.phase \in {"sent", "applied"}
           \/ \E d \in deletes : d.seq = e.seq

\* a handler of the modal calls updateNote(selectedNote.id, updates)
ModalUpdate(updates, handler) ==
    /\ selectedNote # Null
    /\ ~ModalBusy
    /\ budget > 0
    /\ budget' = budget - 1
    /\ requests' = requests \cup {updateNote(selectedNote[1].note.id, updates, opseq + 1)}
    /\ log' = Append(log, [op |-> "detail", seq |-> opseq + 1, id |-> selectedNote[1].note.id,
                           handler |-> handler, upd |-> updates, loaded |-> notes,
                           inst |-> selectedNote[1].inst])
    /\ opseq' = opseq + 1
    /\ UNCHANGED <<notes, loading, store, innerWidth, statusFilter, letterFilter, companyFilter,
                   dateFilter, prevFiltersRef, initialArrangeRef>>
    /\ UNCHANGED rest

handleUpdateStatus(status) == ModalUpdate([status |-> status], "handleUpdateStatus")

handleUpdateRemarks(remarks) == ModalUpdate([remarks |-> remarks], "handleUpdateRemarks")

handleUpdateDeadline(deadline) == ModalUpdate([deadline |-> deadline], "handleUpdateDeadline")

handleUpdateDeadlineType(deadline_type) ==
    ModalUpdate([deadline_type |-> deadline_type], "handleUpdateDeadlineType")

handleToggleSelectedCompleet ==
    ModalUpdate([compleet |-> ~selectedNote[1].note.compleet], "handleToggleSelectedCompleet")

\* deleteNote(selectedNote.id), and setSelectedNote(null) once it returns
handleDelete ==
    /\ selectedNote # Null
    /\ ~ModalBusy
    /\ budget > 0
    /\ budget' = budget - 1
    /\ deletes' = deletes \cup {[seq |-> opseq + 1, id |-> selectedNote[1].note.id,
                                  phase |-> "sent"]}
    /\ log' = Append(log, [op |-> "detail", seq |-> opseq + 1, id |-> selectedNote[1].note.id,
                           handler |-> "handleDelete", upd |-> << >>, loaded |-> notes,
                           inst |-> selectedNote[1].inst])
    /\ opseq' = opseq + 1
    /\ UNCHANGED <<notes, loading, store, requests, innerWidth, statusFilter, letterFilter,
                   companyFilter, dateFilter, prevFiltersRef, initialArrangeRef,
                   viewingUserId, creates, calc, selectedNote>>

----------------------------------------------------------------------------
(* The board *)

Next ==
    \/ FetchResponse
    \/ FetchError
    \/ \E s \in StatusButtons : StatusButton(s)
    \/ LetterAllButton
    \/ \E letter \in LetterButtons : LetterButton(letter)
    \/ \E company \in SPECIAL_BUTTONS : CompanyButton(company)
    \/ \E date \in CalendarDays : DateSelect(date)
    \/ DateClear
    \/ \E w \in Widths : Resize(w)
    \/ budget > 0 /\ \E id \in RenderedIds \cup {GhostId}, delta \in Deltas : handleDragEnd(id, delta)
    \/ \E r \in requests : StoreApply(r)
    \/ \E r \in requests : StoreReject(r)
    \/ \E r \in requests : Response(r)

Spec == Init /\ [][Next]_vars

----------------------------------------------------------------------------
(* The life of the list: load, reload for another user, create, delete (the position
   writes of its passes are issued and stay unanswered) *)

\* the user the supervisor may pick in the select
ViewChoices == {Null, Some(1), Some(2)}

\* user events of this specification
LifeOps == MaxOps + 1

\* the numbers of notes in the store at the start: none, some, more than one create column
LifeSizes == {0, 2, MaxList}

InitLife ==
    /\ notes = <<>>
    /\ loading = TRUE
    /\ \E n \in LifeSizes : store = CreatedStore(n)
    /\ requests = {}
    /\ innerWidth = 830
    /\ statusFilter = "all"
    /\ letterFilter = ALL
    /\ companyFilter = Null
    /\ dateFilter = Null
    /\ prevFiltersRef = Filters("all", ALL, Null, Null)
    /\ initialArrangeRef = FALSE
    /\ opseq = 0
    /\ log = <<>>
    /\ budget = LifeOps
    /\ viewingUserId = Null
    /\ creates = {}
    /\ deletes = {}
    /\ calc = Null
    /\ selectedNote = Null

NextLife ==
    \/ FetchResponse
    \/ FetchError
    \/ \E v \in ViewChoices : SwitchUser(v)
    \/ \E name \in CreateNames : handleCreateNote(name)
    \/ \E c \in creates : StoreInsert(c)
    \/ \E c \in creates : StoreInsertReject(c)
    \/ \E c \in creates : CreateResponse(c)
    \/ \E c \in creates : CreateTimer(c)
    \/ budget > 0 /\ \E id \in RenderedIds : deleteNote(id)
    \/ \E d \in deletes : StoreDelete(d)
    \/ \E d \in deletes : StoreDeleteReject(d)
    \/ \E d \in deletes : DeleteResponse(d)

SpecLife == InitLife /\ [][NextLife]_vars

----------------------------------------------------------------------------
(* Drag-release on its own: one drag-release on a loaded board, and its write *)

\* the store once every write of an arrange pass over list has been applied
Arranged(st, list, w) ==
    LET writes == handleOverview(list, w, 0)
    IN [id \in DOMAIN st |->
          IF \E r \in writes : r.id = id
          THEN ApplyUpdate(st[id], (CHOOSE r \in writes : r.id = id).upd)
          ELSE st[id]]

DragWidths == {400, 830, 1250}

\* the boards a drag-release is tried on: small ones in every layout, and a crowded one
\* (more notes in a row than the probe loop has attempts) arranged in one column and in three
DragBoards ==
    [n : {3, 7}, w : DragWidths, sf : {"all", "nieuw"}, arranged : BOOLEAN]
        \cup [n : {CrowdSize}, w : {400, 1250}, sf : {"all"}, arranged : {TRUE}]
DragDeltas == {<<0, 0>>, <<395, 0>>, <<-395, 0>>, <<0, 295>>, <<200, -150>>, <<-600, -700>>}

\* a board that is loaded and at rest: n notes, either still where createNote put them
\* or arranged at width w, first unfiltered and then under the status filter sf
InitDrag ==
    \E b \in DragBoards :
        LET w == b.w
            sf == b.sf
            st0 == CreatedStore(b.n)
            st1 == Arranged(st0, filteredNotes(OrderByZDesc(StoreRows(st0)), "all", ALL, Null, Null), w)
            st2 == Arranged(st1, filteredNotes(OrderByZDesc(StoreRows(st1)), sf, ALL, Null, Null), w)
        IN /\ store = IF b.arranged THEN st2 ELSE st0
           /\ notes = OrderByZDesc(StoreRows(store))
           /\ loading = FALSE
           /\ requests = {}
           /\ innerWidth = w
           /\ statusFilter = sf
           /\ letterFilter = ALL
           /\ companyFilter = Null
           /\ dateFilter = Null
           /\ prevFiltersRef = Filters(sf, ALL, Null, Null)
           /\ initialArrangeRef = TRUE
           /\ opseq = 0
           /\ log = <<>>
           /\ budget = 1
           /\ viewingUserId = Null
           /\ creates = {}
           /\ deletes = {}
           /\ calc = Null
           /\ selectedNote = Null

NextDrag ==
    \/ budget > 0 /\ \E id \in RenderedIds \cup {GhostId}, delta \in DragDeltas : handleDragEnd(id, delta)
    \/ \E r \in requests : StoreApply(r)
    \/ \E r \in requests : StoreReject(r)
    \/ \E r \in requests : Response(r)

SpecDrag == InitDrag /\ [][NextDrag]_vars

----------------------------------------------------------------------------
(* Creating on its own: one note is created on a loaded, arranged board *)

CreateBoards == [n : {2, 3}, w : {400, 830}, sf : {"all", "nieuw"}]

InitCreate ==
    \E b \in CreateBoards :
        LET st0 == CreatedStore(b.n)
            st1 == Arranged(st0, filteredNotes(OrderByZDesc(StoreRows(st0)), "all", ALL, Null, Null), b.w)
            st2 == Arranged(st1, filteredNotes(OrderByZDesc(StoreRows(st1)), b.sf, ALL, Null, Null), b.w)
        IN /\ store = st2
           /\ notes = OrderByZDesc(StoreRows(store))
           /\ loading = FALSE
           /\ requests = {}
           /\ innerWidth = b.w
           /\ statusFilter = b.sf
           /\ letterFilter = ALL
           /\ companyFilter = Null
           /\ dateFilter = Null
           /\ prevFiltersRef = Filters(b.sf, ALL, Null, Null)
           /\ initialArrangeRef = TRUE
           /\ opseq = 0
           /\ log = <<>>
           /\ budget = 1
           /\ viewingUserId = Null
           /\ creates = {}
           /\ deletes = {}
           /\ calc = Null
           /\ selectedNote = Null

NextCreate ==
    \/ \E name \in CreateNames : handleCreateNote(name)
    \/ \E c \in creates : StoreInsert(c)
    \/ \E c \in creates : StoreInsertReject(c)
    \/ \E c \in creates : CreateResponse(c)
    \/ \E c \in creates : CreateTimer(c)
    \/ \E r \in requests : StoreApply(r)
    \/ \E r \in requests : StoreReject(r)
    \/ \E r \in requests : Response(r)

SpecCreate == InitCreate /\ [][NextCreate]_vars

----------------------------------------------------------------------------
(* Two drag-releases in a row on an arranged board of three notes *)

RaceWidths == {830, 1250}

\* one cell down, one cell to the right
RaceDeltas == {<<0, 295>>, <<395, 0>>}

InitRace ==
    \E w \in RaceWidths :
        LET st0 == CreatedStore(3)
        IN /\ store = Arranged(st0, filteredNotes(OrderByZDesc(StoreRows(st0)), "all", ALL, Null, Null), w)
           /\ notes = OrderByZDesc(StoreRows(store))
           /\ loading = FALSE
           /\ requests = {}
           /\ innerWidth = w
           /\ statusFilter = "all"
           /\ letterFilter = ALL
           /\ companyFilter = Null
           /\ dateFilter = Null
           /\ prevFiltersRef = Filters("all", ALL, Null, Null)
           /\ initialArrangeRef = TRUE
           /\ opseq = 0
           /\ log = <<>>
           /\ budget = LifeOps
           /\ viewingUserId = Null
           /\ creates = {}
           /\ deletes = {}
           /\ calc = Null
           /\ selectedNote = Null

NextRace ==
    \/ budget > 0 /\ \E id \in RenderedIds, delta \in RaceDeltas : handleDragEnd(id, delta)
    \/ \E r \in requests : StoreApply(r)
    \/ \E r \in requests : StoreReject(r)
    \/ \E r \in requests : Response(r)

SpecRace == InitRace /\ [][NextRace]_vars

----------------------------------------------------------------------------
(* Mouse-downs on the notes of an arranged board of three: bring-to-front calls and the
   store's answers in any order *)

InitFront ==
    LET st0 == CreatedStore(3)
        w == 830
    IN /\ store = Arranged(st0, filteredNotes(OrderByZDesc(StoreRows(st0)), "all", ALL, Null, Null), w)
       /\ notes = OrderByZDesc(StoreRows(store))
       /\ loading = FALSE
       /\ requests = {}
       /\ innerWidth = w
       /\ statusFilter = "all"
       /\ letterFilter = ALL
       /\ companyFilter = Null
       /\ dateFilter = Null
       /\ prevFiltersRef = Filters("all", ALL, Null, Null)
       /\ initialArrangeRef = TRUE
       /\ opseq = 0
       /\ log = <<>>
       /\ budget = LifeOps
       /\ viewingUserId = Null
       /\ creates = {}
       /\ deletes = {}
       /\ calc = Null
       /\ selectedNote = Null

NextFront ==
    \/ \E id \in RenderedIds : bringToFront(id)
    \/ \E r \in requests : StoreApply(r)
    \/ \E r \in requests : StoreReject(r)
    \/ \E r \in requests : Response(r)

SpecFront == InitFront /\ [][NextFront]_vars

----------------------------------------------------------------------------
(* Editing the notes of an arranged board of two, on which a drag-release may just have
   been resolved and the detail modal may be open: every handler that updates or deletes
   a note, a drag-release among them, and the store's answers in any order *)

EditStatuses == {"afgerond"}

EditFilters == {"all", "nieuw"}

\* the pointer delta of the drags: one cell down
EditDeltas == {<<0, 295>>}

\* what went before on the board of rendered rows: nothing, or the drag-release
\* of a note whose position write is still unanswered
EditDrags(rendered) ==
    {Null} \cup {Some([id |-> rendered[i].id, delta |-> delta]) :
                     i \in 1..Len(rendered), delta \in EditDeltas}

\* and after it: nothing, or the double click that opened the detail modal on a note
EditModals(rendered) == {Null} \cup {Some(rendered[i]) : i \in 1..Len(rendered)}

InitEdit ==
    \E sf \in EditFilters :
    LET st0 == CreatedStore(2)
        w == 830
        st == Arranged(st0, filteredNotes(OrderByZDesc(StoreRows(st0)), sf, ALL, Null, Null), w)
        ns == OrderByZDesc(StoreRows(st))
        rendered == filteredNotes(ns, sf, ALL, Null, Null)
    IN \E drag \in EditDrags(rendered), modal \in EditModals(rendered) :
       LET dragged == drag[1]
           res == ResolveDrag(ns, FindNote(ns, dragged.id)[1], dragged.delta, w)
           rec == DragRecord(dragged.id, dragged.delta, w, 1, res)
           drags == IF drag = Null THEN 0 ELSE 1
       IN
       /\ store = st
       /\ notes = ns
       /\ loading = FALSE
       /\ requests = IF drag = Null THEN {}
                     ELSE {updatePosition(dragged.id, res.trail[Len(res.trail)].x,
                                          res.trail[Len(res.trail)].y, 1)}
       /\ innerWidth = w
       /\ statusFilter = sf
       /\ letterFilter = ALL
       /\ companyFilter = Null
       /\ dateFilter = Null
       /\ prevFiltersRef = Filters(sf, ALL, Null, Null)
       /\ initialArrangeRef = TRUE
       /\ opseq = drags + (IF modal = Null THEN 0 ELSE 1)
       /\ log = (IF drag = Null THEN <<>> ELSE <<[rec EXCEPT !.pending = {}]>>)
                   \o (IF modal = Null THEN <<>>
                       ELSE <<[op |-> "open", seq |-> drags + 1, id |-> modal[1].id]>>)
       /\ budget = MaxOps
       /\ viewingUserId = Null
       /\ creates = {}
       /\ deletes = {}
       /\ calc = Null
       /\ selectedNote = IF modal = Null THEN Null
                         ELSE Some([note |-> modal[1], inst |-> drags + 1])

NextEdit ==
    \/ \E id \in RenderedIds : bringToFront(id)
    \/ \E id \in RenderedIds : handleToggleReplied(id)
    \/ \E id \in RenderedIds : handleToggleCompleet(id)
    \/ \E id \in RenderedIds : handleCycleStatus(id)
    \/ \E id \in RenderedIds : handleCycleType(id)
    \/ \E id \in RenderedIds, edit \in FieldEdits : handleUpdateField(id, edit)
    \/ budget > 0 /\ \E id \in RenderedIds, delta \in EditDeltas : handleDragEnd(id, delta)
    \/ \E id \in RenderedIds : deleteNote(id)
    \/ \E id \in RenderedIds : OpenDetail(id)
    \/ CloseDetail
    \/ \E status \in EditStatuses : handleUpdateStatus(status)
    \/ handleUpdateRemarks(Some(<<114>>))
    \/ handleUpdateDeadline(Null)
    \/ handleUpdateDeadlineType(Some("ca"))
    \/ handleToggleSelectedCompleet
    \/ handleDelete
    \/ \E r \in requests : StoreApply(r)
    \/ \E r \in requests : StoreReject(r)
    \/ \E r \in requests : Response(r)
    \/ \E d \in deletes : StoreDelete(d)
    \/ \E d \in deletes : StoreDeleteReject(d)
    \/ \E d \in deletes : DeleteResponse(d)

SpecEdit == InitEdit /\ [][NextEdit]_vars

----------------------------------------------------------------------------
(* DeadlineCounters.formatDateLocal, on Date objects whose time value is counted in
   minutes since 1970-01-01T00:00Z; the local getters follow ECMAScript 21.4.1 *)

\* the time value of an invalid Date (NaN), a number that is no time of the model
NaN == -99999999

Day(t) == t \div 1440

DaysInYear(y) ==
    IF y % 4 # 0 THEN 365
    ELSE IF y % 100 # 0 THEN 366
    ELSE IF y % 400 # 0 THEN 365
    ELSE 366

DayFromYear(y) ==
    365 * (y - 1970) + ((y - 1969) \div 4) - ((y - 1901) \div 100) + ((y - 1601) \div 400)

\* the years a day can fall in: a year has 365 or 366 days
Years(day) == (1969 + (day \div 366))..(1971 + (day \div 365))

\* the year y with TimeFromYear(y) <= t < TimeFromYear(y + 1)
YearFromTime(t) ==
    LET day == Day(t)
    IN CHOOSE y \in Years(day) : DayFromYear(y) <= day /\ day < DayFromYear(y + 1)

InLeapYear(t) == IF DaysInYear(YearFromTime(t)) = 366 THEN 1 ELSE 0

DayWithinYear(t) == Day(t) - DayFromYear(YearFromTime(t))

\* the day within the year on which month m (0-based) starts
MonthStart(m, leap) ==
    IF m = 0 THEN 0
    ELSE IF m = 1 THEN 31
    ELSE <<59, 90, 120, 151, 181, 212, 243, 273, 304, 334, 365>>[m - 1] + leap

MonthFromTime(t) ==
    LET leap == InLeapYear(t)
        dayWithinYear == DayWithinYear(t)
    IN CHOOSE m \in 0..11 : /\ MonthStart(m, leap) <= dayWithinYear
                            /\ dayWithinYear < MonthStart(m + 1, leap)

DateFromTime(t) == DayWithinYear(t) - MonthStart(MonthFromTime(t), InLeapYear(t)) + 1

\* a Date: its time value and the offset of the local zone at that instant
\* (local time = UTC + tza)
LocalTime(date) == date.time + date.tza

\* the local getters of an invalid Date return NaN
getFullYear(date) == IF date.time = NaN THEN NaN ELSE YearFromTime(LocalTime(date))
getMonth(date) == IF date.time = NaN THEN NaN ELSE MonthFromTime(LocalTime(date))
getDate(date) == IF date.time = NaN THEN NaN ELSE DateFromTime(LocalTime(date))

\* getDay: 0 = Sunday ... 6 = Saturday; 1970-01-01 was a Thursday
WeekDay(t) == (Day(t) + 4) % 7
getDay(date) == IF date.time = NaN THEN NaN ELSE WeekDay(LocalTime(date))

\* a + b of two numbers
Plus(a, b) == IF a = NaN \/ b = NaN THEN NaN ELSE a + b

getUTCFullYear(date) == YearFromTime(date.time)
getUTCMonth(date) == MonthFromTime(date.time)
getUTCDate(date) == DateFromTime(date.time)

\* String(n) of a natural number: its decimal digits
RECURSIVE String(_)
String(n) ==
    IF n = NaN THEN <<78, 97, 78>>
    ELSE IF n < 10 THEN <<48 + n>> ELSE String(n \div 10) \o <<48 + (n % 10)>>

\* s.padStart(targetLength, padString) with a padString of one character
RECURSIVE padStart(_, _, _)
padStart(str, targetLength, padString) ==
    IF Len(str) >= targetLength THEN str
    ELSE padStart(padString \o str, targetLength, padString)

\* a format that reads the UTC fields of the date
formatDateLocal_UTC(date) ==
    String(getUTCFullYear(date)) \o <<45>>
        \o padStart(String(getUTCMonth(date) + 1), 2, <<48>>) \o <<45>>
        \o padStart(String(getUTCDate(date)), 2, <<48>>)

\* `${year}-${month}-${day}`
formatDateLocal(date) ==
    String(getFullYear(date)) \o <<45>>
        \o padStart(String(Plus(getMonth(date), 1)), 2, <<48>>) \o <<45>>
        \o padStart(String(getDate(date)), 2, <<48>>)

\* the UTC days of the deadlines: 1970-01-01, 2000-02-29, 2023-02-28, 2023-12-31,
\* 2024-02-28, 2024-02-29, 2024-03-15, 2024-03-16, 2024-10-09, 2100-02-28
SampleDays == {0, 11016, 19416, 19722, 19781, 19782, 19797, 19798, 20005, 47540}

\* their UTC times of day: 00:00, 01:00, 05:00, 12:00, 22:00, 23:00 (in minutes)
SampleMinutes == {0, 60, 300, 720, 1320, 1380}

\* offsets of the local zone in minutes: UTC-12, UTC-5, UTC, UTC+2, UTC+14
Offsets == {-720, -300, 0, 120, 840}

\* the hour a zone gains when its summer time starts between two instants
SummerShifts == {0, 60}

Instants == {d * 1440 + m : d \in SampleDays, m \in SampleMinutes}

\* two deadlines, at most a day apart, are parsed into Dates (new Date(n.deadline)) in a
\* zone with some offset; formatDateLocal has not run yet
InitDate ==
    /\ \E a \in Instants, b \in Instants, tza \in Offsets, shift \in SummerShifts :
           /\ Day(b) - Day(a) \in {-1, 0, 1}
           /\ calc = Some([first |-> [time |-> a, tza |-> tza],
                           second |-> [time |-> b, tza |-> tza + shift],
                           firstKey |-> Null, secondKey |-> Null])
    /\ notes = <<>>
    /\ loading = FALSE
    /\ store = CreatedStore(0)
    /\ requests = {}
    /\ innerWidth = 830
    /\ statusFilter = "all"
    /\ letterFilter = ALL
    /\ companyFilter = Null
    /\ dateFilter = Null
    /\ prevFiltersRef = Filters("all", ALL, Null, Null)
    /\ initialArrangeRef = FALSE
    /\ opseq = 0
    /\ log = <<>>
    /\ budget = 0
    /\ viewingUserId = Null
    /\ creates = {}
    /\ deletes = {}
    /\ selectedNote = Null

\* formatDateLocal(deadlineDate) for the first deadline
FormatFirst ==
    /\ calc # Null
    /\ calc[1].firstKey = Null
    /\ calc' = Some([calc[1] EXCEPT !.firstKey = Some(formatDateLocal(calc[1].first))])
    /\ UNCHANGED <<notes, loading, store, requests, innerWidth, statusFilter, letterFilter,
                   companyFilter, dateFilter, prevFiltersRef, initialArrangeRef, opseq, log,
                   budget, viewingUserId, creates, deletes, selectedNote>>

\* formatDateLocal(deadlineDate) for the second deadline
FormatSecond ==
    /\ calc # Null
    /\ calc[1].secondKey = Null
    /\ calc' = Some([calc[1] EXCEPT !.secondKey = Some(formatDateLocal(calc[1].second))])
    /\ UNCHANGED <<notes, loading, store, requests, innerWidth, statusFilter, letterFilter,
                   companyFilter, dateFilter, prevFiltersRef, initialArrangeRef, opseq, log,
                   budget, viewingUserId, creates, deletes, selectedNote>>

NextDate == FormatFirst \/ FormatSecond

SpecDate == InitDate /\ [][NextDate]_vars

----------------------------------------------------------------------------
(* DeadlineCounters: today, the date strings of the three horizons and their counts.
   A deadline is null (Null), or a string: an ISO instant written in UTC
   ([utcDate, utcMinute]) or some other text ([text]) *)

\* the local zone: its offset is tza before the instant `from` and tza + shift from then on
LocalTZA(zone, t) == IF t < zone.from THEN zone.tza ELSE zone.tza + zone.shift

\* UTC(t) of ECMAScript 21.4.1: the instant of a local time; a local time that the
\* transition skips is read with the offset before the transition
UTC(zone, local) ==
    IF local >= zone.from + zone.tza + zone.shift THEN local - (zone.tza + zone.shift)
    ELSE local - zone.tza

\* new Date(value) of a time value
NewDate(zone, t) == [time |-> t, tza |-> IF t = NaN THEN 0 ELSE LocalTZA(zone, t)]

\* Date.parse of a deadline string: NaN for a string that is no date
DateParse(str) == IF "text" \in DOMAIN str THEN NaN ELSE str.utcDate * 1440 + str.utcMinute

\* new Date(n.deadline)
NewDateOfString(zone, str) == NewDate(zone, DateParse(str))

\* !n.deadline is false: the deadline is neither null nor the empty string
Truthy(deadline) == deadline # Null /\ deadline[1] # [text |-> <<>>]

\* MakeDay(year, month, date) of ECMAScript 21.4.1: the day number of a date whose month
\* and day of the month may lie outside their ranges
MakeDay(year, month, dt) ==
    LET ym == year + (month \div 12)
        mn == month % 12
        leap == IF DaysInYear(ym) = 366 THEN 1 ELSE 0
    IN DayFromYear(ym) + MonthStart(mn, leap) + dt - 1

\* date.setHours(0, 0, 0, 0)
setHours(zone, date) == NewDate(zone, UTC(zone, Day(LocalTime(date)) * 1440))

\* date.setDate(dt)
setDate(zone, date, dt) ==
    LET t == LocalTime(date)
    IN NewDate(zone, UTC(zone, MakeDay(YearFromTime(t), MonthFromTime(t), dt) * 1440 + (t % 1440)))

\* a target date read from the UTC fields of the date
getDateString_UTC(zone, today, daysFromNow) ==
    formatDateLocal_UTC(setDate(zone, today, getDate(today) + daysFromNow))

getDateString(zone, today, daysFromNow) ==
    formatDateLocal(setDate(zone, today, getDate(today) + daysFromNow))

countByDays(zone, today, ns, daysFromNow) ==
    LET targetDate == getDateString(zone, today, daysFromNow)
    IN Cardinality({i \in 1..Len(ns) :
           /\ Truthy(ns[i].deadline)
           /\ formatDateLocal(NewDateOfString(zone, ns[i].deadline[1])) = targetDate})

\* the UTC days on which the components are rendered: 1970-01-01, 2023-02-28, 2023-12-31,
\* 2024-02-28, 2024-03-15, 2100-02-28, and the times of day 00:00, 12:00, 23:00
RenderDays == {0, 19416, 19722, 19781, 19797, 47540}
RenderMinutes == {0, 720, 1380}

\* the zones: an offset, and summer time that may start at 01:00Z of the next day
RenderZones(day) ==
    {[tza |-> o, shift |-> s, from |-> (day + 1) * 1440 + 60] : o \in Offsets, s \in SummerShifts}

\* the deadlines of the notes: none, the empty string, the text "n/a", and instants from
\* the day before the render to three days after it
RenderDeadlines(day) ==
    {Null, Some([text |-> <<>>]), Some([text |-> <<110, 47, 97>>])}
        \cup {Some([utcDate |-> day + k, utcMinute |-> m]) : k \in -1..3, m \in {0, 1380}}

DeadlineTypes == {Null, Some("must"), Some("ca")}

\* the notes handed to DeadlineCounters and the instant and zone of its render
InitCount ==
    /\ \E day \in RenderDays, m \in RenderMinutes :
         \E zone \in RenderZones(day), d1 \in RenderDeadlines(day), d2 \in RenderDeadlines(day) :
           calc = Some([zone |-> zone,
                        now |-> NewDate(zone, day * 1440 + m),
                        notes |-> <<[id |-> 1, deadline |-> d1], [id |-> 2, deadline |-> d2]>>,
                        rendered |-> Null])
    /\ notes = <<>>
    /\ loading = FALSE
    /\ store = CreatedStore(0)
    /\ requests = {}
    /\ innerWidth = 830
    /\ statusFilter = "all"
    /\ letterFilter = ALL
    /\ companyFilter = Null
    /\ dateFilter = Null
    /\ prevFiltersRef = Filters("all", ALL, Null, Null)
    /\ initialArrangeRef = FALSE
    /\ opseq = 0
    /\ log = <<>>
    /\ budget = 0
    /\ viewingUserId = Null
    /\ creates = {}
    /\ deletes = {}
    /\ selectedNote = Null

\* a render of DeadlineCounters: today, then the target date and the count of each horizon
DeadlineCounters ==
    /\ calc # Null
    /\ calc[1].rendered = Null
    /\ LET zone == calc[1].zone
           today == setHours(zone, calc[1].now)
       IN calc' = Some([calc[1] EXCEPT !.rendered =
              Some([today |-> today,
                    targets |-> [d \in 0..2 |-> getDateString(zone, today, d)],
                    counts |-> [d \in 0..2 |-> countByDays(zone, today, calc[1].notes, d)]])])
    /\ UNCHANGED <<notes, loading, store, requests, innerWidth, statusFilter, letterFilter,
                   companyFilter, dateFilter, prevFiltersRef, initialArrangeRef, opseq, log,
                   budget, viewingUserId, creates, deletes, selectedNote>>

NextCount == DeadlineCounters

SpecCount == InitCount /\ [][NextCount]_vars

----------------------------------------------------------------------------
(* Calendar: the month on view, its grid of days and the notes of each day *)

\* new Date(year, month, date): local midnight of a day given by fields that may lie
\* outside their ranges
NewDateOf(zone, year, month, dt) == NewDate(zone, UTC(zone, MakeDay(year, month, dt) * 1440))

\* the text of a stored instant up to its 'T': the YYYY-MM-DD of its UTC day
IsoDate(utcDate) == formatDateLocal([time |-> utcDate * 1440, tza |-> 0])

\* text.split('T')[0]: the text before the first 'T'
RECURSIVE BeforeT(_)
BeforeT(text) ==
    IF text = <<>> \/ Head(text) = 84 THEN <<>> ELSE <<Head(text)>> \o BeforeT(Tail(text))

\* note.deadline.split('T')[0]
splitT(str) == IF "text" \in DOMAIN str THEN BeforeT(str.text) ELSE IsoDate(str.utcDate)

\* the map of notesByDate, read at one key: the notes filed under it, in list order
notesByDate(ns, dateKey) ==
    SelectSeq(ns, LAMBDA note : Truthy(note.deadline) /\ splitT(note.deadline[1]) = dateKey)

\* a grid that starts its weeks on Sunday
calendarDays_SundayFirst(zone, year, month) ==
    LET firstDay == NewDateOf(zone, year, month, 1)
        lastDay == NewDateOf(zone, year, month + 1, 0)
    IN [i \in 1..getDay(firstDay) |-> Null] \o [day \in 1..getDate(lastDay) |-> Some(day)]

\* the cells of the month: null for the days before the first, then the days
calendarDays(zone, year, month) ==
    LET firstDay == NewDateOf(zone, year, month, 1)
        lastDay == NewDateOf(zone, year, month + 1, 0)
        startDayOfWeek == IF getDay(firstDay) = 0 THEN 6 ELSE getDay(firstDay) - 1
        daysInMonth == getDate(lastDay)
    IN [i \in 1..startDayOfWeek |-> Null] \o [day \in 1..daysInMonth |-> Some(day)]

\* `${y}-${m}-${d}`
getDateKey(year, month, day) ==
    String(year) \o <<45>> \o padStart(String(month + 1), 2, <<48>>) \o <<45>>
        \o padStart(String(day), 2, <<48>>)

getDateInfo(ns, year, month, day) ==
    LET notesOnDate == notesByDate(ns, getDateKey(year, month, day))
        some(p(_)) == \E i \in 1..Len(notesOnDate) : p(notesOnDate[i])
    IN [notesOnDate |-> notesOnDate,
        hasMust |-> some(LAMBDA n : n.deadline_type = Some("must")),
        hasCa |-> some(LAMBDA n : n.deadline_type = Some("ca")),
        hasOther |-> some(LAMBDA n : n.deadline_type = Null),
        count |-> Len(notesOnDate)]

\* the days and times at which the calendar is opened: 2023-12-31, 2024-03-15
OpenDays == {19722, 19797}
OpenMinutes == {0, 1380}

\* the second note of the calendar: none due, or one due at noon of the day it is opened
SecondNotes(day) ==
    {[id |-> 2, deadline |-> Null, deadline_type |-> Null],
     [id |-> 2, deadline |-> Some([utcDate |-> day, utcMinute |-> 720]),
      deadline_type |-> Some("ca")]}

\* Calendar after construction: currentMonth is new Date(), nothing is drawn yet
InitCalendar ==
    /\ \E day \in OpenDays, m \in OpenMinutes :
         \E zone \in {z \in RenderZones(day) : z.shift = 0}, d1 \in RenderDeadlines(day),
            t1 \in DeadlineTypes, n2 \in SecondNotes(day) :
           calc = Some([zone |-> zone,
                        notes |-> <<[id |-> 1, deadline |-> d1, deadline_type |-> t1], n2>>,
                        currentMonth |-> NewDate(zone, day * 1440 + m),
                        clicks |-> 0,
                        drawn |-> Null])
    /\ notes = <<>>
    /\ loading = FALSE
    /\ store = CreatedStore(0)
    /\ requests = {}
    /\ innerWidth = 830
    /\ statusFilter = "all"
    /\ letterFilter = ALL
    /\ companyFilter = Null
    /\ dateFilter = Null
    /\ prevFiltersRef = Filters("all", ALL, Null, Null)
    /\ initialArrangeRef = FALSE
    /\ opseq = 0
    /\ log = <<>>
    /\ budget = 0
    /\ viewingUserId = Null
    /\ creates = {}
    /\ deletes = {}
    /\ selectedNote = Null

\* a render of Calendar: the grid of the month on view and getDateInfo of each of its days
CalendarRender ==
    /\ calc # Null
    /\ calc[1].drawn = Null
    /\ LET year == getFullYear(calc[1].currentMonth)
           month == getMonth(calc[1].currentMonth)
           days == calendarDays(calc[1].zone, year, month)
           shown == {i \in 1..Len(days) : days[i] # Null}
       IN calc' = Some([calc[1] EXCEPT !.drawn =
              Some([year |-> year, month |-> month, days |-> days,
                    info |-> [day \in {days[i][1] : i \in shown} |->
                                 getDateInfo(calc[1].notes, year, month, day)]])])
    /\ UNCHANGED <<notes, loading, store, requests, innerWidth, statusFilter, letterFilter,
                   companyFilter, dateFilter, prevFiltersRef, initialArrangeRef, opseq, log,
                   budget, viewingUserId, creates, deletes, selectedNote>>

\* setCurrentMonth(new Date(year, month + by, 1)), which draws the calendar anew
SetMonth(by) ==
    /\ calc # Null
    /\ calc[1].clicks < LifeOps
    /\ LET year == getFullYear(calc[1].currentMonth)
           month == getMonth(calc[1].currentMonth)
       IN calc' = Some([calc[1] EXCEPT !.currentMonth = NewDateOf(calc[1].zone, year, month + by, 1),
                                       !.clicks = @ + 1,
                                       !.drawn = Null])
    /\ UNCHANGED <<notes, loading, store, requests, innerWidth, statusFilter, letterFilter,
                   companyFilter, dateFilter, prevFiltersRef, initialArrangeRef, opseq, log,
                   budget, viewingUserId, creates, deletes, selectedNote>>

handlePrevMonth == SetMonth(-1)

handleNextMonth == SetMonth(1)

NextCalendar == CalendarRender \/ handlePrevMonth \/ handleNextMonth

SpecCalendar == InitCalendar /\ [][NextCalendar]_vars

\* the months the grid is drawn for: every month of 1970, 1999, 2000, 2023, 2024 and 2100,
\* opened on its 1st, 15th or 28th day
GridYears == {1970, 1999, 2000, 2023, 2024, 2100}
GridDates == {1, 15, 28}

\* Calendar opened at noon of a day of one of these months, on a board without deadlines
InitMonth ==
    /\ \E year \in GridYears, month \in 0..11, dt \in GridDates, o \in Offsets :
         LET zone == [tza |-> o, shift |-> 0, from |-> 0]
         IN calc = Some([zone |-> zone,
                         notes |-> <<>>,
                         currentMonth |-> NewDate(zone, UTC(zone, MakeDay(year, month, dt) * 1440 + 720)),
                         clicks |-> 0,
                         drawn |-> Null])
    /\ notes = <<>>
    /\ loading = FALSE
    /\ store = CreatedStore(0)
    /\ requests = {}
    /\ innerWidth = 830
    /\ statusFilter = "all"
    /\ letterFilter = ALL
    /\ companyFilter = Null
    /\ dateFilter = Null
    /\ prevFiltersRef = Filters("all", ALL, Null, Null)
    /\ initialArrangeRef = FALSE
    /\ opseq = 0
    /\ log = <<>>
    /\ budget = 0
    /\ viewingUserId = Null
    /\ creates = {}
    /\ deletes = {}
    /\ selectedNote = Null

SpecMonth == InitMonth /\ [][NextCalendar]_vars

----------------------------------------------------------------------------
(* WeekOverview: today and the walk of getWorkdays, one loop iteration at a time *)

\* the number of workdays getWorkdays collects
WORKDAYS == 5

\* the UTC days on which the overview is opened: Friday 2023-12-29, Sunday 2023-12-31,
\* Wednesday 2024-02-28 and Monday 2024-03-11 to Sunday 2024-03-17
WeekDays == {19720, 19722, 19781} \cup (19793..19799)

\* WeekOverview is about to be rendered at some instant in some zone
InitWeek ==
    /\ \E day \in WeekDays, m \in OpenMinutes :
         \E zone \in RenderZones(day) :
           calc = Some([zone |-> zone,
                        now |-> NewDate(zone, day * 1440 + m),
                        pc |-> "render",
                        today |-> Null,
                        current |-> Null,
                        workdays |-> <<>>,
                        iterations |-> 0])
    /\ notes = <<>>
    /\ loading = FALSE
    /\ store = CreatedStore(0)
    /\ requests = {}
    /\ innerWidth = 830
    /\ statusFilter = "all"
    /\ letterFilter = ALL
    /\ companyFilter = Null
    /\ dateFilter = Null
    /\ prevFiltersRef = Filters("all", ALL, Null, Null)
    /\ initialArrangeRef = FALSE
    /\ opseq = 0
    /\ log = <<>>
    /\ budget = 0
    /\ viewingUserId = Null
    /\ creates = {}
    /\ deletes = {}
    /\ selectedNote = Null

\* today = new Date(); today.setHours(0, 0, 0, 0); getWorkdays is entered:
\* workdays = [], current = new Date(today)
WeekOverview ==
    /\ calc # Null
    /\ calc[1].pc = "render"
    /\ LET today == setHours(calc[1].zone, calc[1].now)
       IN calc' = Some([calc[1] EXCEPT !.pc = "while",
                                       !.today = Some(today),
                                       !.current = Some(NewDate(calc[1].zone, today.time)),
                                       !.workdays = <<>>])
    /\ UNCHANGED <<notes, loading, store, requests, innerWidth, statusFilter, letterFilter,
                   companyFilter, dateFilter, prevFiltersRef, initialArrangeRef, opseq, log,
                   budget, viewingUserId, creates, deletes, selectedNote>>

\* a loop body that keeps Saturdays
getWorkdaysBody_KeepSaturday(zone, current, workdays) ==
    LET dayOfWeek == getDay(current)
    IN [workdays |-> IF dayOfWeek # 0
                     THEN Append(workdays, NewDate(zone, current.time))
                     ELSE workdays,
        current |-> setDate(zone, current, getDate(current) + 1)]

\* a loop body that steps only after a day was kept
getWorkdaysBody_StepWhenKept(zone, current, workdays) ==
    LET dayOfWeek == getDay(current)
    IN [workdays |-> IF dayOfWeek # 0 /\ dayOfWeek # 6
                     THEN Append(workdays, NewDate(zone, current.time))
                     ELSE workdays,
        current |-> IF dayOfWeek # 0 /\ dayOfWeek # 6
                    THEN setDate(zone, current, getDate(current) + 1)
                    ELSE current]

\* the body of the while loop: keep a copy of current unless it is a Sunday (0) or a
\* Saturday (6), then move current one day on
getWorkdaysBody(zone, current, workdays) ==
    LET dayOfWeek == getDay(current)
    IN [workdays |-> IF dayOfWeek # 0 /\ dayOfWeek # 6
                     THEN Append(workdays, NewDate(zone, current.time))
                     ELSE workdays,
        current |-> setDate(zone, current, getDate(current) + 1)]

\* one iteration of while (workdays.length < 5)
getWorkdaysLoop ==
    /\ calc # Null
    /\ calc[1].pc = "while"
    /\ Len(calc[1].workdays) < WORKDAYS
    /\ LET body == getWorkdaysBody(calc[1].zone, calc[1].current[1], calc[1].workdays)
       IN calc' = Some([calc[1] EXCEPT !.workdays = body.workdays,
                                       !.current = Some(body.current),
                                       !.iterations = @ + 1])
    /\ UNCHANGED <<notes, loading, store, requests, innerWidth, statusFilter, letterFilter,
                   companyFilter, dateFilter, prevFiltersRef, initialArrangeRef, opseq, log,
                   budget, viewingUserId, creates, deletes, selectedNote>>

\* the loop condition fails: return workdays
getWorkdaysReturn ==
    /\ calc # Null
    /\ calc[1].pc = "while"
    /\ ~(Len(calc[1].workdays) < WORKDAYS)
    /\ calc' = Some([calc[1] EXCEPT !.pc = "returned"])
    /\ UNCHANGED <<notes, loading, store, requests, innerWidth, statusFilter, letterFilter,
                   companyFilter, dateFilter, prevFiltersRef, initialArrangeRef, opseq, log,
                   budget, viewingUserId, creates, deletes, selectedNote>>

NextWeek == WeekOverview \/ getWorkdaysLoop \/ getWorkdaysReturn

SpecWeek == InitWeek /\ [][NextWeek]_vars

\* the overview opened at 00:00Z in a zone without summer time
InitWeekAtMidnight ==
    /\ InitWeek
    /\ calc[1].zone.shift = 0
    /\ calc[1].now.time % 1440 = 0

\* the render runs to its end: a step that can be taken is taken
SpecWeekFair == InitWeekAtMidnight /\ [][NextWeek]_vars /\ WF_vars(NextWeek)

----------------------------------------------------------------------------
(* Arranging on its own: the board from construction, the passes its renders start *)

ArrangeWidths == {300, 400, 830, 840, 1250}

InitArrange ==
    /\ notes = <<>>
    /\ loading = TRUE
    /\ \E n \in 0..MaxList : store = CreatedStore(n)
    /\ requests = {}
    /\ innerWidth \in ArrangeWidths
    /\ statusFilter = "all"
    /\ letterFilter = ALL
    /\ companyFilter = Null
    /\ dateFilter = Null
    /\ prevFiltersRef = Filters("all", ALL, Null, Null)
    /\ initialArrangeRef = FALSE
    /\ opseq = 0
    /\ log = <<>>
    /\ budget = MaxOps
    /\ viewingUserId = Null
    /\ creates = {}
    /\ deletes = {}
    /\ calc = Null
    /\ selectedNote = Null

NextArrange ==
    \/ FetchResponse
    \/ FetchError
    \/ \E s \in StatusButtons : StatusButton(s)
    \/ LetterAllButton
    \/ \E letter \in LetterButtons : LetterButton(letter)
    \/ \E company \in SPECIAL_BUTTONS : CompanyButton(company)
    \/ \E date \in CalendarDays : DateSelect(date)
    \/ DateClear
    \/ \E w \in ArrangeWidths : Resize(w)

SpecArrange == InitArrange /\ [][NextArrange]_vars

----------------------------------------------------------------------------
(* Vocabulary of the properties *)

\* the layout operations a step adds to the log
NewOps == SubSeq(log', Len(log) + 1, Len(log'))

\* the requests a step issues
NewRequests == requests' \ requests

\* the drag-releases of the log that found their note
Drags == {i \in 1..Len(log) : log[i].op = "drag" /\ log[i].found}

\* the collision predicate of the specification, between a note and a position
Collides(o, x, y) ==
    /\ Abs(o.position_x - x) < NOTE_WIDTH + GRID_GAP - 10
    /\ Abs(o.position_y - y) < NOTE_HEIGHT + GRID_GAP - 10

\* the notes of ns other than the note id
Others(ns, id) == {ns[i] : i \in {j \in 1..Len(ns) : ns[j].id # id}}

\* the writes issued so far, whatever has become of them
Issued(reqs) == {[op |-> r.op, id |-> r.id, upd |-> r.upd] : r \in reqs}

\* the writes a step issues
NewWrites == Issued(requests') \ Issued(requests)

\* the positions the rows with this id hold in the local list ns, and in the store st
LocalPos(ns, id) ==
    {<<ns[i].position_x, ns[i].position_y>> : i \in {j \in 1..Len(ns) : ns[j].id = id}}
StorePos(st, id) == <<st[id].position_x, st[id].position_y>>

\* the ids of the notes drag-releases of the log lg found
DraggedIds(lg) == {lg[i].id : i \in {j \in 1..Len(lg) : lg[j].op = "drag" /\ lg[j].found}}

\* the number of probes of a drag-release that collided
Collisions(d) == Len(d.trail) - 1

\* the resolved position of drag-release d overlaps a note of ns other than the dragged one
Overlaps(d, ns) == \E o \in Others(ns, d.id) : Collides(o, d.x, d.y)

----------------------------------------------------------------------------
(* Drag-release: the resolved position *)

\* C1 (as claimed): after any drag-release resolution the resolved position of the dragged
\* note overlaps no other note of the list it was resolved on
C1_NoOverlapAfterAnyDrag ==
    [][\A k \in 1..Len(NewOps) :
          (NewOps[k].op = "drag" /\ NewOps[k].found) => ~Overlaps(NewOps[k], notes)]_vars

\* C1 (amended): after a drag-release resolution in which fewer than 50 probes collided,
\* the resolved position of the dragged note overlaps no other note of the list
C1_NoOverlapUnlessExhausted ==
    [][\A k \in 1..Len(NewOps) :
          (NewOps[k].op = "drag" /\ NewOps[k].found /\ Collisions(NewOps[k]) < 50)
              => ~Overlaps(NewOps[k], notes)]_vars

\* a drag-release was relocated past colliding cells, fewer than 50 of them, and written
C1_Witness ==
    \E i \in Drags :
        /\ Collisions(log[i]) > 1
        /\ Collisions(log[i]) < 50
        /\ ~Overlaps(log[i], notes)
        /\ \E r \in requests : r.op = log[i].seq /\ r.phase = "done"

\* the cell one grid step on from cell c, wrapping to the next row when the note would
\* not fit in the board any more
OneStepOn(c, w) ==
    IF c.x + 395 > (w - 40) - 380 THEN [x |-> 20, y |-> c.y + 295] ELSE [x |-> c.x + 395, y |-> c.y]

\* the drag-release d was dropped exactly on the position of another note of ns
DroppedOnNote(d, ns) ==
    \E o \in Others(ns, d.id) : o.position_x = d.trail[1].x /\ o.position_y = d.trail[1].y

\* C2 (as claimed): a note dropped exactly on another note's position never ends on that
\* cell: it ends one grid step to the right, or on the leftmost column of the next row
C2_DroppedOnNoteMovesOneCell ==
    [][\A k \in 1..Len(NewOps) :
          LET d == NewOps[k]
          IN (d.op = "drag" /\ d.found /\ DroppedOnNote(d, notes))
                => /\ <<d.x, d.y>> # <<d.trail[1].x, d.trail[1].y>>
                   /\ \/ <<d.x, d.y>> = <<d.trail[1].x + 395, d.trail[1].y>>
                      \/ <<d.x, d.y>> = <<20, d.trail[1].y + 295>>]_vars

\* C2 (amended): a note dropped exactly on another note's position never ends on that
\* cell: its next candidate is the cell one grid step to the right, or the leftmost column
\* of the next row when that step passes the board width less the note width, and it
\* ends there when that cell collides with no other note
C2_DroppedOnNoteMovesOn ==
    [][\A k \in 1..Len(NewOps) :
          LET d == NewOps[k]
              step == OneStepOn(d.trail[1], d.width)
          IN (d.op = "drag" /\ d.found /\ DroppedOnNote(d, notes))
                => /\ <<d.x, d.y>> # <<d.trail[1].x, d.trail[1].y>>
                   /\ Len(d.trail) >= 2
                   /\ d.trail[2] = step
                   /\ (\A o \in Others(notes, d.id) : ~Collides(o, step.x, step.y))
                         => <<d.x, d.y>> = <<step.x, step.y>>]_vars

\* a note was dropped exactly on another note and ended one cell on, in the same row
C2_Witness ==
    \E i \in Drags :
        /\ DroppedOnNote(log[i], notes)
        /\ Collisions(log[i]) = 1
        /\ <<log[i].x, log[i].y>> = <<log[i].trail[1].x + 395, log[i].trail[1].y>>

\* C3: a drag-release resolution runs at most 50 probes and yields x >= 0 and y >= 0, and
\* it issues the write of its final candidate also when all 50 probes collided
C3_BoundedProbesNonNegative ==
    \A i \in Drags :
        /\ log[i].attempts <= 50
        /\ Collisions(log[i]) <= log[i].attempts
        /\ log[i].x >= 0
        /\ log[i].y >= 0
        /\ log[i].x = log[i].trail[Len(log[i].trail)].x
        /\ log[i].y = log[i].trail[Len(log[i].trail)].y
        /\ \E r \in requests :
              /\ r.op = log[i].seq
              /\ r.id = log[i].id
              /\ r.upd = [position_x |-> log[i].x, position_y |-> log[i].y]

\* all 50 probes of a drag-release collided, and its last candidate is stored; another
\* drop clamped at the board origin is covered by the same runs
C3_Witness ==
    \E i \in Drags :
        /\ Collisions(log[i]) = 50
        /\ log[i].attempts = 50
        /\ store[log[i].id].position_x = log[i].x
        /\ store[log[i].id].position_y = log[i].y
        /\ \E r \in requests : r.op = log[i].seq /\ r.phase = "done"

\* C4 (as claimed): every candidate but the last collided, and its successor is one cell
\* (395) to the right, or (20, y + 295) exactly when x + 395 exceeds innerWidth - 40
C4_AdvanceWrapsAtBoardWidth ==
    [][\A k \in 1..Len(NewOps) :
          LET d == NewOps[k]
          IN (d.op = "drag" /\ d.found)
                => \A j \in 1..(Len(d.trail) - 1) :
                      /\ \E o \in Others(notes, d.id) : Collides(o, d.trail[j].x, d.trail[j].y)
                      /\ d.trail[j + 1] =
                            IF d.trail[j].x + 395 > d.width - 40
                            THEN [x |-> 20, y |-> d.trail[j].y + 295]
                            ELSE [x |-> d.trail[j].x + 395, y |-> d.trail[j].y]]_vars

\* C4 (amended): every candidate but the last collided, and its successor is one cell
\* (395) to the right, or (20, y + 295) exactly when x + 395 exceeds the board width less
\* the note width, innerWidth - 40 - 380
C4_AdvanceWrapsWhenNoteDoesNotFit ==
    [][\A k \in 1..Len(NewOps) :
          LET d == NewOps[k]
          IN (d.op = "drag" /\ d.found)
                => \A j \in 1..(Len(d.trail) - 1) :
                      /\ \E o \in Others(notes, d.id) : Collides(o, d.trail[j].x, d.trail[j].y)
                      /\ d.trail[j + 1] =
                            IF d.trail[j].x + 395 > d.width - 40 - 380
                            THEN [x |-> 20, y |-> d.trail[j].y + 295]
                            ELSE [x |-> d.trail[j].x + 395, y |-> d.trail[j].y]]_vars

\* a drag-release advanced both within a row and across a row end
C4_Witness ==
    \E i \in Drags :
        \E j, k \in 1..(Len(log[i].trail) - 1) :
            /\ log[i].trail[j + 1].y = log[i].trail[j].y
            /\ log[i].trail[j + 1].x = log[i].trail[j].x + 395
            /\ log[i].trail[k + 1].x = 20
            /\ log[i].trail[k + 1].y = log[i].trail[k].y + 295

\* C5 (as claimed): the position a drag-release resolves is the one resolved against the
\* other visible notes alone, so that a note the filter hides never changes it
C5_HiddenNotesNeverChangeTheResult ==
    [][\A k \in 1..Len(NewOps) :
          LET d == NewOps[k]
              visible == filteredNotes(notes, statusFilter, letterFilter, companyFilter, dateFilter)
              res == ResolveDrag(visible, FindNote(notes, d.id)[1], d.delta, d.width)
          IN (d.op = "drag" /\ d.found)
                => <<d.x, d.y>> = <<res.trail[Len(res.trail)].x, res.trail[Len(res.trail)].y>>]_vars

\* C6: a drag-release that finds its note issues exactly one write, of position_x and
\* position_y of that note; one that finds no note issues none; and no step of a
\* drag-release or of its write changes the position of another note, locally or stored
C6_DragWritesOnlyTheDraggedNote ==
    [][/\ \A k \in 1..Len(NewOps) :
             LET d == NewOps[k]
             IN d.op = "drag" =>
                   IF d.found
                   THEN /\ NewWrites = {[op |-> d.seq, id |-> d.id,
                                         upd |-> [position_x |-> d.x, position_y |-> d.y]]}
                        /\ store' = store
                        /\ notes' = notes
                   ELSE /\ NewWrites = {}
                        /\ store' = store
                        /\ notes' = notes
       /\ NewOps = <<>> => NewWrites = {}
       /\ \A id \in DOMAIN store :
             id \notin DraggedIds(log')
                => /\ StorePos(store', id) = StorePos(store, id)
                   /\ LocalPos(notes', id) = LocalPos(notes, id)]_vars

\* a drag-release moved its note: the write is done, store and local list hold the new
\* position, and every other note is where the board was loaded with it
C6_Witness ==
    \E i \in Drags :
        /\ \E r \in requests : r.op = log[i].seq /\ r.phase = "done"
        /\ StorePos(store, log[i].id) = <<log[i].x, log[i].y>>
        /\ LocalPos(notes, log[i].id) = {<<log[i].x, log[i].y>>}
        /\ log[i].delta # <<0, 0>>
        /\ Len(notes) > 1

----------------------------------------------------------------------------
(* Arrange: the positions of a pass and the writes it issues *)

\* the arrange passes of the log
Passes == {i \in 1..Len(log) : log[i].op = "arrange"}

\* the writes of the layout operation numbered seq
WritesOf(seq) == {w \in Issued(requests) : w.op = seq}

\* the ids of a list of notes
IdsOf(list) == [i \in 1..Len(list) |-> list[i].id]

\* C7: a pass takes the filtered, name-sorted list at the current window width and writes,
\* for the note at index i, x = (i mod c) * 395 + 20 and y = floor(i / c) * 295 + 20 with
\* c = max(1, floor((innerWidth - 40) / 395)); passes over the same list at the same width
\* write the same positions; 7 notes at usable width 800 get x in {20, 415} and
\* y in {20, 315, 610, 905}
C7_ArrangeFormula ==
    /\ [][\A k \in 1..Len(NewOps) :
            LET a == NewOps[k]
                q == (a.width - 40) \div 395
                c == IF q >= 1 THEN q ELSE 1
            IN a.op = "arrange" =>
                 /\ a.width = innerWidth'
                 /\ a.ids = IdsOf(filteredNotes(notes', statusFilter', letterFilter',
                                                companyFilter', dateFilter'))
                 /\ {w \in NewWrites : w.op = a.seq} =
                        {[op |-> a.seq, id |-> a.ids[i],
                          upd |-> [position_x |-> ((i - 1) % c) * 395 + 20,
                                   position_y |-> ((i - 1) \div c) * 295 + 20]] :
                            i \in 1..Len(a.ids)}]_vars
    /\ [](\A i, j \in Passes :
            (log[i].ids = log[j].ids /\ log[i].width = log[j].width)
                => {[id |-> w.id, upd |-> w.upd] : w \in WritesOf(log[i].seq)}
                      = {[id |-> w.id, upd |-> w.upd] : w \in WritesOf(log[j].seq)})
    /\ [](\A i \in Passes :
            (Len(log[i].ids) = 7 /\ log[i].width - 40 = 800)
                => /\ {w.upd.position_x : w \in WritesOf(log[i].seq)} = {20, 415}
                   /\ {w.upd.position_y : w \in WritesOf(log[i].seq)} = {20, 315, 610, 905})

\* a pass arranged 7 notes at usable width 800, in two columns and four rows
C7_Witness ==
    \E i \in Passes :
        /\ Len(log[i].ids) = 7
        /\ log[i].width = 840
        /\ \E w \in WritesOf(log[i].seq) :
              w.id = log[i].ids[7] /\ w.upd = [position_x |-> 20, position_y |-> 905]
        /\ \E w \in WritesOf(log[i].seq) :
              w.id = log[i].ids[4] /\ w.upd = [position_x |-> 415, position_y |-> 315]

\* the grid cell of a written position
CellOf(upd) == <<(upd.position_x - 20) \div 395, (upd.position_y - 20) \div 295>>

\* C8: the positions one pass writes for two distinct notes lie in cells that differ in
\* row or column, and do not collide under the drag collision predicate, whatever the
\* length of the list and the window width
C8_ArrangedNotesDoNotCollide ==
    \A i \in Passes :
        /\ Cardinality(WritesOf(log[i].seq)) = Len(log[i].ids)
        /\ \A w1, w2 \in WritesOf(log[i].seq) :
              w1.id # w2.id
                 => /\ CellOf(w1.upd) # CellOf(w2.upd)
                    /\ ~(/\ Abs(w1.upd.position_x - w2.upd.position_x) < 385
                         /\ Abs(w1.upd.position_y - w2.upd.position_y) < 285)

\* passes arranged several notes in a window narrower than one note, and in three columns
C8_Witness ==
    \E i \in Passes :
        /\ Len(log[i].ids) >= 3
        /\ log[i].width = 300
        /\ \A w1, w2 \in WritesOf(log[i].seq) : w1.upd.position_x = w2.upd.position_x

\* C9: a pass issues exactly one position write for every note of the filtered set and
\* none for another note, none at all when the set is empty, and a step that starts no
\* pass issues no write
C9_OneWritePerFilteredNote ==
    [][/\ \A k \in 1..Len(NewOps) :
             LET a == NewOps[k]
                 list == filteredNotes(notes', statusFilter', letterFilter', companyFilter',
                                       dateFilter')
                 visible == {list[i].id : i \in 1..Len(list)}
                 writes == {w \in NewWrites : w.op = a.seq}
             IN a.op = "arrange" =>
                  /\ \A id \in visible : Cardinality({w \in writes : w.id = id}) = 1
                  /\ \A w \in writes :
                        w.id \in visible /\ DOMAIN w.upd = {"position_x", "position_y"}
                  /\ visible = {} => writes = {}
       /\ \A w \in NewWrites : \E k \in 1..Len(NewOps) : NewOps[k].seq = w.op]_vars

\* a pass ran under a filter that hides some notes and shows others
C9_Witness ==
    \E i \in Passes :
        /\ Len(log[i].ids) >= 2
        /\ Len(log[i].ids) < Len(notes)
        /\ {w.id : w \in WritesOf(log[i].seq)} = {log[i].ids[k] : k \in 1..Len(log[i].ids)}

----------------------------------------------------------------------------
(* Failed writes *)

\* the requests that change phase in a step, as they were before it
Moved == {r \in requests : r \notin requests'}

\* the rows of the local list with this id
LocalRows(ns, id) == {ns[i] : i \in {j \in 1..Len(ns) : ns[j].id = id}}

\* C10: a write that fails changes no position, locally or in the store, and is not
\* issued again; a write that is applied puts its computed position in the store, and its
\* answer puts it in the local list, for that note alone; and while only one write of a
\* note has been applied, the store holds that write's position
C10_FailedWritesLeaveTheBoardAlone ==
    /\ [][\A r \in Moved :
            LET after == CHOOSE q \in requests' :
                            q.op = r.op /\ q.id = r.id /\ q.upd = r.upd /\ q \notin requests
                others == DOMAIN store \ {r.id}
            IN /\ Cardinality(Moved) = 1
               /\ after.phase = "failed" =>
                     /\ r.phase = "sent"
                     /\ store' = store
                     /\ notes' = notes
                     /\ NewWrites = {}
               /\ after.phase = "applied" =>
                     /\ r.phase = "sent"
                     /\ StorePos(store', r.id) = <<r.upd.position_x, r.upd.position_y>>
                     /\ \A id \in others : store'[id] = store[id]
                     /\ notes' = notes
               /\ after.phase = "done" =>
                     /\ r.phase = "applied"
                     /\ LocalPos(notes', r.id) = {<<r.upd.position_x, r.upd.position_y>>}
                     /\ \A id \in others : LocalRows(notes', id) = LocalRows(notes, id)
                     /\ store' = store]_vars
    /\ [][\A r \in requests : r.phase = "failed" =>
            /\ r \in requests'
            /\ \A w \in NewWrites : w.op > r.op]_vars
    /\ [](\A id \in DOMAIN store :
            LET landed == {r \in requests : r.id = id /\ r.phase \in {"applied", "done"}}
            IN /\ landed = {} => StorePos(store, id) = <<CreateX(id - 1), CreateY(id - 1)>>
               /\ \A r \in landed :
                     landed = {r} => StorePos(store, id) = <<r.upd.position_x, r.upd.position_y>>)

\* one write of a pass failed and another was applied and answered: the first note is
\* where it was, locally and in the store, the second where the pass put it
C10_Witness ==
    \E r1, r2 \in requests :
        /\ r1.op = r2.op
        /\ r1.phase = "failed"
        /\ r2.phase = "done"
        /\ \A r \in requests : r.op = r1.op
        /\ StorePos(store, r1.id) = <<CreateX(r1.id - 1), CreateY(r1.id - 1)>>
        /\ LocalPos(notes, r1.id) = {<<CreateX(r1.id - 1), CreateY(r1.id - 1)>>}
        /\ StorePos(store, r1.id) # <<r1.upd.position_x, r1.upd.position_y>>
        /\ StorePos(store, r2.id) = <<r2.upd.position_x, r2.upd.position_y>>
        /\ LocalPos(notes, r2.id) = {<<r2.upd.position_x, r2.upd.position_y>>}

----------------------------------------------------------------------------
(* What starts an arrange pass *)

\* the filters of the board, now and after the step
FiltersNow == Filters(statusFilter, letterFilter, companyFilter, dateFilter)
FiltersNext == Filters(statusFilter', letterFilter', companyFilter', dateFilter')

\* C11: a step that changes the status, letter, company or date filter and leaves a
\* non-empty filtered list starts exactly one arrange pass, over the list the new filters
\* select, and that pass writes a position for each note of that list and for no other
C11_FilterChangeArrangesTheNewSet ==
    [][LET list == filteredNotes(notes', statusFilter', letterFilter', companyFilter',
                                 dateFilter')
       IN (FiltersNext # FiltersNow /\ Len(list) > 0)
             => /\ Len(NewOps) = 1
                /\ NewOps[1].op = "arrange"
                /\ NewOps[1].trigger = "filter"
                /\ NewOps[1].ids = IdsOf(list)
                /\ {w.id : w \in NewWrites} = {list[i].id : i \in 1..Len(list)}
                /\ \A w \in NewWrites : w.op = NewOps[1].seq]_vars

\* a filter change started a pass over a list that differs from the unfiltered one
C11_Witness ==
    \E i \in Passes :
        /\ log[i].trigger = "filter"
        /\ Len(log[i].ids) >= 1
        /\ log[i].ids = IdsOf(filteredNotes(notes, statusFilter, letterFilter, companyFilter,
                                            dateFilter))
        /\ log[i].ids # IdsOf(filteredNotes(notes, "all", ALL, Null, Null))
        /\ WritesOf(log[i].seq) # {}

\* nothing is under way and nothing more will come: every request is answered, no create
\* is under way, the load is over and the user acts no more
Quiescent ==
    /\ ~loading
    /\ budget = 0
    /\ creates = {}
    /\ deletes = {}
    /\ \A r \in requests : r.phase \in {"done", "failed"}

\* C12 (as claimed): every change of the window width is followed by an arrange pass at
\* the new width: once the board is quiescent with notes to show, a pass at that width
\* has been started after the change
C12_ResizeIsFollowedByArrange ==
    (Quiescent /\ RenderedIds # {})
        => \A i \in 1..Len(log) :
              log[i].op = "resize"
                 => \E j \in (i + 1)..Len(log) :
                       log[j].op = "arrange" /\ log[j].width = log[i].width

\* the passes the initial-arrange effect started
LoadPasses == {i \in Passes : log[i].trigger = "load"}

\* C13: the initial-arrange effect starts a pass only in a step that ends loaded with a
\* non-empty list and in which it sets initialArrangeRef; it does so at most once; and
\* whenever the board is loaded with a non-empty list the pass has been started: so it
\* runs at the first such moment, and no reload, no change of the number of notes and no
\* later render runs it again
C13_InitialArrangeRunsOnce ==
    /\ [][\A k \in 1..Len(NewOps) :
            (NewOps[k].op = "arrange" /\ NewOps[k].trigger = "load")
               => /\ ~initialArrangeRef
                  /\ initialArrangeRef'
                  /\ LoadPasses = {}
                  /\ ~loading'
                  /\ Len(notes') > 0]_vars
    /\ [][initialArrangeRef => initialArrangeRef']_vars
    /\ [](Cardinality(LoadPasses) <= 1)
    /\ []((~loading /\ Len(notes) > 0) => Cardinality(LoadPasses) = 1)

\* the initial pass ran, and after it the list was loaded again for one user
C13_Witness ==
    /\ Cardinality(LoadPasses) = 1
    /\ viewingUserId # Null
    /\ ~loading
    /\ Len(notes) > 0
    /\ \E i \in LoadPasses : Len(log[i].ids) # Len(notes)

\* the passes a create timer started
TimerPasses == {i \in Passes : log[i].trigger = "timer"}

\* the create whose timer started pass i, as the log holds it
CreateOf(i) == log[CHOOSE j \in 1..Len(log) : log[j].op = "create" /\ log[j].seq = log[i].create]

\* C14 (as claimed): when a note was created on a board that held notes, the pass of the
\* 100 ms timer includes the new note, and once the writes of that pass are answered the
\* new note is stored at the grid cell of its index in the sorted filtered list
C14_TimerArrangeIncludesTheNewNote ==
    \A i \in TimerPasses :
        (log[i].created # Null /\ Len(CreateOf(i).loaded) > 0)
           => LET new == log[i].created[1].id
                  list == filteredNotes(notes, statusFilter, letterFilter, companyFilter,
                                        dateFilter)
              IN \A k \in 1..Len(list) :
                    list[k].id = new
                       => /\ \E n \in 1..Len(log[i].ids) : log[i].ids[n] = new
                          /\ (\A r \in requests : r.op = log[i].seq => r.phase = "done")
                                => StorePos(store, new)
                                     = <<ArrangeX(k - 1, log[i].width), ArrangeY(k - 1, log[i].width)>>

----------------------------------------------------------------------------
(* Operations that overlap in time *)

\* every write issued so far has been applied and answered
AllWritesDone == \A r \in requests : r.phase = "done"

\* C15 (as claimed): when a pass was started while writes of an earlier pass were still
\* unanswered, and no layout operation came after it, then once every write of both is
\* done each note of the later pass is stored at the position that pass computed for it
C15_LaterPassWinsInAnyOrder ==
    \A i, j \in Passes :
        (/\ i < j
         /\ log[i].seq \in log[j].pending
         /\ \A k \in (j + 1)..Len(log) : log[k].op \notin {"arrange", "drag"}
         /\ AllWritesDone)
            => \A w \in WritesOf(log[j].seq) :
                  StorePos(store, w.id) = <<w.upd.position_x, w.upd.position_y>>

\* C16 (as claimed): when the drag-release of note B was resolved while the position
\* write of an earlier drag-release of another note A was unanswered, then once the
\* writes of both are done A and B are not stored on colliding positions
C16_ConcurrentDragsDoNotCollide ==
    \A i, j \in Drags :
        (/\ i < j
         /\ log[i].id # log[j].id
         /\ log[i].seq \in log[j].pending
         /\ AllWritesDone)
            => ~Collides(store[log[i].id], store[log[j].id].position_x,
                         store[log[j].id].position_y)

----------------------------------------------------------------------------
(* Stacking *)

\* the bring-to-front calls of the log
Fronts == {i \in 1..Len(log) : log[i].op = "front"}

\* the z_index of the rows with this id in the list ns
LocalZ(ns, id) == {ns[i].z_index : i \in {k \in 1..Len(ns) : ns[k].id = id}}

\* in the list ns the note id lies strictly above every other note of the visible list
StrictlyAbove(ns, visible, id) ==
    \A z \in LocalZ(ns, id) :
        \A i \in 1..Len(visible) : visible[i].id # id => z > visible[i].z_index

\* the bring-to-front writes whose answer arrives in this step
FrontsCompleting ==
    {r \in requests : /\ r.phase = "applied"
                      /\ "z_index" \in DOMAIN r.upd
                      /\ [r EXCEPT !.phase = "done"] \in requests'}

\* C17 (as claimed): a bring-to-front call asks for a z_index strictly greater than that
\* of every note loaded at the call, and when its answer has arrived the note lies
\* strictly above every other visible note
C17_BroughtToFrontIsStrictlyAbove ==
    [][/\ \A i \in Fronts : \A k \in 1..Len(log[i].loaded) :
              log[i].upd.z_index > log[i].loaded[k].z_index
       /\ \A r \in FrontsCompleting :
              StrictlyAbove(notes', filteredNotes(notes', statusFilter', letterFilter',
                                                  companyFilter', dateFilter'), r.id)]_vars

----------------------------------------------------------------------------
(* What the update handlers leave alone *)

\* the log record of operation seq in the log lg
OpOf(lg, seq) ==
    CHOOSE e \in {lg[i] : i \in 1..Len(lg)} : "seq" \in DOMAIN e /\ e.seq = seq

\* the updates of note id the store applies in this step
Applying(id) ==
    {r \in requests : /\ r.phase = "sent"
                      /\ r.id = id
                      /\ id \in DOMAIN store'
                      /\ [r EXCEPT !.phase = "applied", !.data = Some(store'[id])] \in requests'}

\* the updates of note id whose answer arrives in this step
Answered(id) ==
    {r \in requests : /\ r.phase = "applied"
                      /\ r.id = id
                      /\ [r EXCEPT !.phase = "done"] \in requests'}

\* the handlers other than arrange, drag-release and create
EditKinds == {"edit", "detail", "front"}

----------------------------------------------------------------------------
(* Creation-time placement *)

\* the createNote calls of the log
Creates == {i \in 1..Len(log) : log[i].op = "create"}

\* the rows of the list ns that carry the id the store gave to the note of create i
CreatedRows(ns, i) == SelectSeq(ns, LAMBDA r : r.id = NewId(log[i]))

\* row has the position and the z_index of the row that create i computed
PlacedAs(row, i) ==
    /\ row.position_x = log[i].row.position_x
    /\ row.position_y = log[i].row.position_y
    /\ row.z_index = log[i].row.z_index

\* C19: a createNote called with n notes loaded computes position_x = 20 + floor(n/6)*460,
\* position_y = 20 + (n mod 6)*100 and, when n > 0, z_index = the maximum z_index of the
\* loaded notes + 1, which is greater than the z_index of every loaded note; the row the
\* store inserts and the row appended to the local list carry these values
C19_CreatePlacement ==
    \A i \in Creates :
        LET n == Len(log[i].loaded)
            row == log[i].row
        IN /\ row.position_x = 20 + (n \div 6) * 460
           /\ row.position_y = 20 + (n % 6) * 100
           /\ n > 0 => /\ \E k \in 1..n : row.z_index = log[i].loaded[k].z_index + 1
                       /\ \A k \in 1..n : row.z_index > log[i].loaded[k].z_index
           /\ NewId(log[i]) \in DOMAIN store => PlacedAs(store[NewId(log[i])], i)
           /\ \A k \in 1..Len(CreatedRows(notes, i)) : PlacedAs(CreatedRows(notes, i)[k], i)

\* a note created with seven or more notes loaded stands in the second column, in the
\* store and in the local list
C19_Witness ==
    \E i \in Creates :
        /\ Len(log[i].loaded) > 6
        /\ log[i].row.position_x = 480
        /\ NewId(log[i]) \in DOMAIN store
        /\ CreatedRows(notes, i) # <<>>

----------------------------------------------------------------------------
(* The local calendar date of a deadline *)

\* the civil calendar: the days around the sample days, by their number since 1970-01-01
Calendar ==
    {[day |-> -2, y |-> 1969, m |-> 12, d |-> 30],
     [day |-> -1, y |-> 1969, m |-> 12, d |-> 31],
     [day |-> 0, y |-> 1970, m |-> 1, d |-> 1],
     [day |-> 1, y |-> 1970, m |-> 1, d |-> 2],
     [day |-> 2, y |-> 1970, m |-> 1, d |-> 3],
     [day |-> 3, y |-> 1970, m |-> 1, d |-> 4],
     [day |-> 4, y |-> 1970, m |-> 1, d |-> 5],
     [day |-> 5, y |-> 1970, m |-> 1, d |-> 6],
     [day |-> 11015, y |-> 2000, m |-> 2, d |-> 28],
     [day |-> 11016, y |-> 2000, m |-> 2, d |-> 29],
     [day |-> 11017, y |-> 2000, m |-> 3, d |-> 1],
     [day |-> 19414, y |-> 2023, m |-> 2, d |-> 26],
     [day |-> 19415, y |-> 2023, m |-> 2, d |-> 27],
     [day |-> 19416, y |-> 2023, m |-> 2, d |-> 28],
     [day |-> 19417, y |-> 2023, m |-> 3, d |-> 1],
     [day |-> 19418, y |-> 2023, m |-> 3, d |-> 2],
     [day |-> 19419, y |-> 2023, m |-> 3, d |-> 3],
     [day |-> 19420, y |-> 2023, m |-> 3, d |-> 4],
     [day |-> 19421, y |-> 2023, m |-> 3, d |-> 5],
     [day |-> 19718, y |-> 2023, m |-> 12, d |-> 27],
     [day |-> 19719, y |-> 2023, m |-> 12, d |-> 28],
     [day |-> 19720, y |-> 2023, m |-> 12, d |-> 29],
     [day |-> 19721, y |-> 2023, m |-> 12, d |-> 30],
     [day |-> 19722, y |-> 2023, m |-> 12, d |-> 31],
     [day |-> 19723, y |-> 2024, m |-> 1, d |-> 1],
     [day |-> 19724, y |-> 2024, m |-> 1, d |-> 2],
     [day |-> 19725, y |-> 2024, m |-> 1, d |-> 3],
     [day |-> 19726, y |-> 2024, m |-> 1, d |-> 4],
     [day |-> 19727, y |-> 2024, m |-> 1, d |-> 5],
     [day |-> 19728, y |-> 2024, m |-> 1, d |-> 6],
     [day |-> 19729, y |-> 2024, m |-> 1, d |-> 7],
     [day |-> 19730, y |-> 2024, m |-> 1, d |-> 8],
     [day |-> 19731, y |-> 2024, m |-> 1, d |-> 9],
     [day |-> 19732, y |-> 2024, m |-> 1, d |-> 10],
     [day |-> 19779, y |-> 2024, m |-> 2, d |-> 26],
     [day |-> 19780, y |-> 2024, m |-> 2, d |-> 27],
     [day |-> 19781, y |-> 2024, m |-> 2, d |-> 28],
     [day |-> 19782, y |-> 2024, m |-> 2, d |-> 29],
     [day |-> 19783, y |-> 2024, m |-> 3, d |-> 1],
     [day |-> 19784, y |-> 2024, m |-> 3, d |-> 2],
     [day |-> 19785, y |-> 2024, m |-> 3, d |-> 3],
     [day |-> 19786, y |-> 2024, m |-> 3, d |-> 4],
     [day |-> 19787, y |-> 2024, m |-> 3, d |-> 5],
     [day |-> 19788, y |-> 2024, m |-> 3, d |-> 6],
     [day |-> 19789, y |-> 2024, m |-> 3, d |-> 7],
     [day |-> 19790, y |-> 2024, m |-> 3, d |-> 8],
     [day |-> 19791, y |-> 2024, m |-> 3, d |-> 9],
     [day |-> 19792, y |-> 2024, m |-> 3, d |-> 10],
     [day |-> 19793, y |-> 2024, m |-> 3, d |-> 11],
     [day |-> 19794, y |-> 2024, m |-> 3, d |-> 12],
     [day |-> 19795, y |-> 2024, m |-> 3, d |-> 13],
     [day |-> 19796, y |-> 2024, m |-> 3, d |-> 14],
     [day |-> 19797, y |-> 2024, m |-> 3, d |-> 15],
     [day |-> 19798, y |-> 2024, m |-> 3, d |-> 16],
     [day |-> 19799, y |-> 2024, m |-> 3, d |-> 17],
     [day |-> 19800, y |-> 2024, m |-> 3, d |-> 18],
     [day |-> 19801, y |-> 2024, m |-> 3, d |-> 19],
     [day |-> 19802, y |-> 2024, m |-> 3, d |-> 20],
     [day |-> 19803, y |-> 2024, m |-> 3, d |-> 21],
     [day |-> 19804, y |-> 2024, m |-> 3, d |-> 22],
     [day |-> 19805, y |-> 2024, m |-> 3, d |-> 23],
     [day |-> 19806, y |-> 2024, m |-> 3, d |-> 24],
     [day |-> 19807, y |-> 2024, m |-> 3, d |-> 25],
     [day |-> 19808, y |-> 2024, m |-> 3, d |-> 26],
     [day |-> 19809, y |-> 2024, m |-> 3, d |-> 27],
     [day |-> 20004, y |-> 2024, m |-> 10, d |-> 8],
     [day |-> 20005, y |-> 2024, m |-> 10, d |-> 9],
     [day |-> 20006, y |-> 2024, m |-> 10, d |-> 10],
     [day |-> 47538, y |-> 2100, m |-> 2, d |-> 26],
     [day |-> 47539, y |-> 2100, m |-> 2, d |-> 27],
     [day |-> 47540, y |-> 2100, m |-> 2, d |-> 28],
     [day |-> 47541, y |-> 2100, m |-> 3, d |-> 1],
     [day |-> 47542, y |-> 2100, m |-> 3, d |-> 2],
     [day |-> 47543, y |-> 2100, m |-> 3, d |-> 3],
     [day |-> 47544, y |-> 2100, m |-> 3, d |-> 4],
     [day |-> 47545, y |-> 2100, m |-> 3, d |-> 5]}

\* the calendar entry of the local day of a Date: of the instant shifted by the offset
LocalDayOf(date) == CHOOSE c \in Calendar : c.day = (date.time + date.tza) \div 1440

\* YYYY-MM-DD with leading zeros, as character codes
DateName(c) ==
    << 48 + (c.y \div 1000), 48 + ((c.y \div 100) % 10), 48 + ((c.y \div 10) % 10),
       48 + (c.y % 10), 45, 48 + (c.m \div 10), 48 + (c.m % 10), 45,
       48 + (c.d \div 10), 48 + (c.d % 10) >>

\* the dates whose key has been computed, each with its key
Keyed ==
    IF calc = Null THEN {}
    ELSE (IF calc[1].firstKey = Null THEN {}
          ELSE {[date |-> calc[1].first, key |-> calc[1].firstKey[1]]})
         \cup (IF calc[1].secondKey = Null THEN {}
               ELSE {[date |-> calc[1].second, key |-> calc[1].secondKey[1]]})

\* 2024-03-15T23:00:00Z and 2024-03-16T01:00:00Z, in minutes, and 2024-03-16
March15At23 == [time |-> 19797 * 1440 + 1380, tza |-> 120]
March16At01 == [time |-> 19798 * 1440 + 60, tza |-> 120]
March16 == <<50, 48, 50, 52, 45, 48, 51, 45, 49, 54>>

\* C20: formatDateLocal gives the zero-padded YYYY-MM-DD of the local calendar day of the
\* instant (the day of the instant shifted by the zone's offset) for offsets of either
\* sign; so local midnight of a day gives that day, two instants of one local day give one
\* key, and 2024-03-15T23:00Z and 2024-03-16T01:00Z at UTC+2 both give 2024-03-16
C20_LocalDateKey ==
    /\ \A k \in Keyed : k.key = DateName(LocalDayOf(k.date))
    /\ \A k \in Keyed :
           (k.date.time + k.date.tza) % 1440 = 0
              => k.key = DateName(CHOOSE c \in Calendar : c.day * 1440 = k.date.time + k.date.tza)
    /\ \A k1, k2 \in Keyed : LocalDayOf(k1.date) = LocalDayOf(k2.date) => k1.key = k2.key
    /\ \A k \in Keyed : k.date \in {March15At23, March16At01} => k.key = March16

\* both keys of the example are computed: 23:00Z of March 15 and 01:00Z of March 16 at
\* UTC+2 share the key of March 16
C20_Witness ==
    /\ calc # Null
    /\ calc[1].first = March15At23
    /\ calc[1].second = March16At01
    /\ calc[1].firstKey = Some(March16)
    /\ calc[1].secondKey = Some(March16)

----------------------------------------------------------------------------
(* The counts of the deadline horizons *)

\* the local day, counted since 1970-01-01, of an instant in a zone
LocalDayIn(zone, t) == (t + (IF t < zone.from THEN zone.tza ELSE zone.tza + zone.shift)) \div 1440

\* a deadline that is present and is a date
WellFormed(deadline) == deadline # Null /\ "utcDate" \in DOMAIN deadline[1]

\* the notes whose deadline falls on a local day
DueOn(zone, ns, day) ==
    {i \in 1..Len(ns) :
        /\ WellFormed(ns[i].deadline)
        /\ LocalDayIn(zone, ns[i].deadline[1].utcDate * 1440 + ns[i].deadline[1].utcMinute) = day}

\* C21: for d in 0..2 the target date of countByDays is the YYYY-MM-DD of the local day
\* of the render plus d days, across month and year ends, and the count is the number of
\* notes whose deadline is a date on that local day; a note whose deadline is null, empty
\* or no date is counted in no horizon
C21_CountByHorizon ==
    (calc # Null /\ calc[1].rendered # Null) =>
        LET r == calc[1].rendered[1]
            zone == calc[1].zone
            todayDay == LocalDayIn(zone, calc[1].now.time)
        IN /\ r.today.time + r.today.tza = todayDay * 1440
           /\ \A d \in 0..2 :
                  /\ r.targets[d] = DateName(CHOOSE c \in Calendar : c.day = todayDay + d)
                  /\ r.counts[d] = Cardinality(DueOn(zone, calc[1].notes, todayDay + d))
                  /\ r.counts[d] <= Cardinality({i \in 1..Len(calc[1].notes) :
                                                   WellFormed(calc[1].notes[i].deadline)})

\* rendered at 2023-12-31T23:00Z in a zone at UTC+2: today is 2024-01-01, one note is due
\* tomorrow (2024-01-02) and is counted there, the other has the deadline "n/a"
C21_Witness ==
    /\ calc # Null
    /\ calc[1].rendered # Null
    /\ calc[1].now.time = 19722 * 1440 + 1380
    /\ calc[1].zone.tza = 120
    /\ calc[1].notes[1].deadline = Some([utcDate |-> 19723, utcMinute |-> 1380])
    /\ calc[1].notes[2].deadline = Some([text |-> <<110, 47, 97>>])
    /\ calc[1].rendered[1].targets[1] = <<50, 48, 50, 52, 45, 48, 49, 45, 48, 50>>
    /\ calc[1].rendered[1].counts = [d \in 0..2 |-> IF d = 1 THEN 1 ELSE 0]

----------------------------------------------------------------------------
(* The notes of a calendar day *)

\* the calendar entry of the local day of a dated deadline
LocalEntry(zone, deadline) ==
    CHOOSE c \in Calendar :
        c.day = LocalDayIn(zone, deadline[1].utcDate * 1440 + deadline[1].utcMinute)

\* C22 (as claimed): the notes, the count and the three flags of a day of the month on
\* view are those of exactly the notes whose deadline is a date that falls, in local
\* time, on that day
C22_CellsHoldTheLocalDay ==
    (calc # Null /\ calc[1].drawn # Null) =>
        LET v == calc[1].drawn[1]
            ns == calc[1].notes
            due(day) == {i \in 1..Len(ns) :
                           /\ WellFormed(ns[i].deadline)
                           /\ LET c == LocalEntry(calc[1].zone, ns[i].deadline)
                              IN c.y = v.year /\ c.m = v.month + 1 /\ c.d = day}
        IN \A day \in DOMAIN v.info :
               /\ {v.info[day].notesOnDate[k].id : k \in 1..Len(v.info[day].notesOnDate)}
                      = {ns[i].id : i \in due(day)}
               /\ v.info[day].count = Cardinality(due(day))
               /\ v.info[day].hasMust = (\E i \in due(day) : ns[i].deadline_type = Some("must"))
               /\ v.info[day].hasCa = (\E i \in due(day) : ns[i].deadline_type = Some("ca"))
               /\ v.info[day].hasOther = (\E i \in due(day) : ns[i].deadline_type = Null)

----------------------------------------------------------------------------
(* The grid of a month *)

\* the days of a month (1..12) of the civil calendar
CivilDaysIn(y, m) ==
    IF m \in {4, 6, 9, 11} THEN 30
    ELSE IF m # 2 THEN 31
    ELSE IF (y % 4 = 0 /\ y % 100 # 0) \/ y % 400 = 0 THEN 29 ELSE 28

\* the weekday of a civil date by Zeller's congruence, counted from Monday = 0
MondayFirst(y, m, d) ==
    LET mm == IF m < 3 THEN m + 12 ELSE m
        yy == IF m < 3 THEN y - 1 ELSE y
        h == (d + ((13 * (mm + 1)) \div 5) + (yy % 100) + ((yy % 100) \div 4)
                + ((yy \div 100) \div 4) + 5 * (yy \div 100)) % 7
    IN (h + 5) % 7

\* C25: the grid drawn for a month is k empty cells followed by the days 1..daysInMonth in
\* order, k being the weekday of the first of the month counted from Monday = 0; it has
\* k + daysInMonth cells and holds every day once
C25_MonthGrid ==
    (calc # Null /\ calc[1].drawn # Null) =>
        LET v == calc[1].drawn[1]
            k == MondayFirst(v.year, v.month + 1, 1)
            daysInMonth == CivilDaysIn(v.year, v.month + 1)
        IN /\ Len(v.days) = k + daysInMonth
           /\ \A i \in 1..Len(v.days) : v.days[i] = IF i <= k THEN Null ELSE Some(i - k)
           /\ \A day \in 1..daysInMonth :
                  Cardinality({i \in 1..Len(v.days) : v.days[i] = Some(day)}) = 1

\* one month on from a day of January 2024 the grid of February 2024 is drawn: three
\* empty cells, then 29 days
C25_Witness ==
    /\ calc # Null
    /\ calc[1].drawn # Null
    /\ calc[1].clicks = 1
    /\ calc[1].drawn[1].year = 2024
    /\ calc[1].drawn[1].month = 1
    /\ Len(calc[1].drawn[1].days) = 32
    /\ calc[1].drawn[1].days[3] = Null
    /\ calc[1].drawn[1].days[4] = Some(1)
    /\ calc[1].drawn[1].days[32] = Some(29)

----------------------------------------------------------------------------
(* The workdays of the week overview *)

\* the local day, counted since 1970-01-01, of a Date, and whether it is a Saturday or a
\* Sunday of the civil calendar
LocalDayNumber(zone, date) == LocalDayIn(zone, date.time)
Weekend(day) ==
    LET c == CHOOSE e \in Calendar : e.day = day
    IN MondayFirst(c.y, c.m, c.d) >= 5

\* the walk has returned its workdays
Returned == calc # Null /\ calc[1].pc = "returned"

\* C23: getWorkdays returns five dates, each the local midnight of a day, in strictly
\* increasing order, none a Saturday or a Sunday, which are the five earliest days from
\* today on that are no weekend days; on Friday 2024-03-15 they are that Friday and the
\* Monday to Thursday after it
C23_NextWorkdays ==
    Returned =>
        LET zone == calc[1].zone
            w == calc[1].workdays
            todayDay == LocalDayIn(zone, calc[1].now.time)
            day(i) == LocalDayNumber(zone, w[i])
        IN /\ Len(w) = 5
           /\ \A i \in 1..Len(w) : w[i].time + w[i].tza = day(i) * 1440
           /\ \A i \in 1..(Len(w) - 1) : day(i) < day(i + 1)
           /\ \A i \in 1..Len(w) : day(i) >= todayDay /\ ~Weekend(day(i))
           /\ \A x \in todayDay..day(Len(w)) : ~Weekend(x) => \E i \in 1..Len(w) : day(i) = x
           /\ todayDay = 19797 => [i \in 1..5 |-> day(i)] = <<19797, 19800, 19801, 19802, 19803>>

\* opened on Friday 2024-03-15 the walk has returned that Friday and the next Monday to
\* Thursday
C23_Witness ==
    /\ Returned
    /\ LocalDayIn(calc[1].zone, calc[1].now.time) = 19797
    /\ Len(calc[1].workdays) = 5
    /\ LocalDayNumber(calc[1].zone, calc[1].workdays[1]) = 19797
    /\ LocalDayNumber(calc[1].zone, calc[1].workdays[2]) = 19800
    /\ LocalDayNumber(calc[1].zone, calc[1].workdays[5]) = 19803

\* C24: the walk of getWorkdays runs at most 5 + 2 * ceil(5 / 5) = 7 iterations and comes
\* to its return, whatever weekday it starts on
C24_WalkTerminates ==
    /\ [](calc # Null => calc[1].iterations <= WORKDAYS + 2 * ((WORKDAYS + 4) \div 5))
    /\ <>Returned

\* a walk started on a Saturday has returned after seven iterations
C24_Witness ==
    /\ Returned
    /\ Weekend(LocalDayIn(calc[1].zone, calc[1].now.time))
    /\ ~Weekend(LocalDayIn(calc[1].zone, calc[1].now.time) + 2)
    /\ calc[1].iterations = 7

----------------------------------------------------------------------------
(* The local list once every write is answered *)

\* C26 (as claimed): once every write issued (drag-release, arrange, bring-to-front and
\* field updates) has been applied and answered and nothing is in flight, every note of
\* the local list has the position_x, position_y and z_index of its row in the store
C26_LocalAgreesOnceSettled ==
    (requests # {} /\ AllWritesDone /\ deletes = {} /\ creates = {}) =>
        \A i \in 1..Len(notes) :
            notes[i].id \in DOMAIN store =>
                /\ notes[i].position_x = store[notes[i].id].position_x
                /\ notes[i].position_y = store[notes[i].id].position_y
                /\ notes[i].z_index = store[notes[i].id].z_index

\* C27 (as claimed): the notes of the store, and those of the local list, have pairwise
\* distinct z_index values after any sequence of bring-to-front calls, also when one is
\* issued while an earlier one is in flight
C27_StackingIsAStrictOrder ==
    /\ \A a, b \in DOMAIN store : a # b => store[a].z_index # store[b].z_index
    /\ \A i, j \in 1..Len(notes) : notes[i].id # notes[j].id => notes[i].z_index # notes[j].z_index

----------------------------------------------------------------------------
(* How the probe loop of a drag-release ends *)

\* the candidate c of a drag-release of note id collides with another note of ns
CollidesIn(ns, id, c) == \E o \in Others(ns, id) : Collides(o, c.x, c.y)

\* C28: a probe loop that ends on a free probe (fewer than 50 probes collided) returns a
\* position that collides with no other note of the list it probed; a position that
\* collides is returned only when all 50 probes collided, and it is then the candidate
\* after the 50th advance, the 51st, which no probe has looked at
C28_CollidingOnlyWhenExhausted ==
    [][\A k \in 1..Len(NewOps) :
          LET d == NewOps[k]
              last == d.trail[Len(d.trail)]
          IN (d.op = "drag" /\ d.found) =>
                /\ <<d.x, d.y>> = <<last.x, last.y>>
                /\ d.positionOccupied = (Collisions(d) = 50)
                /\ ~d.positionOccupied =>
                      /\ d.attempts = Collisions(d) + 1
                      /\ ~CollidesIn(notes, d.id, last)
                /\ CollidesIn(notes, d.id, last) =>
                      /\ d.positionOccupied
                      /\ d.attempts = 50
                      /\ Len(d.trail) = 51
                      /\ \A j \in 1..50 : CollidesIn(notes, d.id, d.trail[j])
                      /\ last = OneStepOn(d.trail[50], d.width)]_vars

\* a drag-release whose 50 probes all collided returned its 51st candidate, which lies on
\* another note, and the store holds it
C28_Witness ==
    /\ \E i \in Drags :
          /\ log[i].positionOccupied
          /\ log[i].attempts = 50
          /\ Len(log[i].trail) = 51
          /\ CollidesIn(notes, log[i].id, log[i].trail[51])
          /\ store[log[i].id].position_y = log[i].trail[51].y

----------------------------------------------------------------------------
(* The grid of a drag-release and the grid of an arrange pass *)

\* the column of the arrange grid that starts at x, if x starts one
OnColumn(x) == x >= 20 /\ (x - 20) % 395 = 0
ColumnOf(x) == (x - 20) \div 395

\* C29 (as claimed): a candidate that collided in column k of the arrange grid is followed
\* by the cell of column k + 1 in the same row when k + 1 is a column an arrange pass uses
\* at this window width (k + 1 < max(1, floor((innerWidth - 40) / 395))), and by the first
\* cell of the next row otherwise
C29_DragUsesTheArrangeColumns ==
    [][\A k \in 1..Len(NewOps) :
          LET d == NewOps[k]
              c == notesPerRow(d.width)
          IN (d.op = "drag" /\ d.found) =>
                \A j \in 1..(Len(d.trail) - 1) :
                    OnColumn(d.trail[j].x) =>
                        d.trail[j + 1] =
                            IF ColumnOf(d.trail[j].x) + 1 < c
                            THEN [x |-> d.trail[j].x + 395, y |-> d.trail[j].y]
                            ELSE [x |-> 20, y |-> d.trail[j].y + 295]]_vars

\* C30 (as claimed): the position a drag-release resolves lies on the arrange grid:
\* x = 20 + k * 395 and y = 20 + m * 295 with k, m >= 0, also for a drop left of or above
\* the board origin
C30_ResolvedPositionsLieOnTheGrid ==
    \A i \in Drags :
        /\ log[i].x >= 20
        /\ (log[i].x - 20) % 395 = 0
        /\ log[i].y >= 20
        /\ (log[i].y - 20) % 295 = 0

====
